---- MODULE Spec2Model ----
(***************************************************************************)
(* Movie-Recommendations-for-Plex (src/MRFP.py): the incremental metadata  *)
(* cache (MovieCache), the watched-cache gate of                           *)
(* PlexMovieRecommender.__init__ and the taste-profile counters.           *)
(*                                                                         *)
(* Conventions.  A Python dict is a function; a dict that may lack keys is *)
(* a function whose DOMAIN lacks them.  Rating keys are naturals (str() of *)
(* a rating key is injective, so the cache's string keys are the same      *)
(* naturals).  Ratings and multipliers are fixed-point numbers in tenths:  *)
(* 84 is 8.4, and the multiplier 16 is 1.6.                                *)
(***************************************************************************)
EXTENDS Integers, Sequences, FiniteSets, TLC

\* ------------------------------------------------------------------ bounds

\* Number of distinct rating keys the library may ever hold.
MaxMovies == 2

Ids == 1..MaxMovies

\* The empty dict / empty function.
EmptyDict == [k \in {} |-> 0]

\* ------------------------------------------------------- strings and lists

\* str.lower() on the strings the model uses.
LowerTable ==
  [s \in {"Action", "Drama", "English", "French", "N/A",
          "Alien", "Brazil", "Casino", "Heat", "HEAT", "Ronin", "Nikita"} |->
     CASE s = "Action"  -> "action"
       [] s = "Drama"   -> "drama"
       [] s = "English" -> "english"
       [] s = "French"  -> "french"
       [] s = "N/A"     -> "n/a"
       [] s = "Alien"   -> "alien"
       [] s = "Brazil"  -> "brazil"
       [] s = "Casino"  -> "casino"
       [] s = "Heat"    -> "heat"
       [] s = "HEAT"    -> "heat"
       [] s = "Ronin"   -> "ronin"
       [] s = "Nikita"  -> "nikita"]

Lower(s) == IF s \in DOMAIN LowerTable THEN LowerTable[s] ELSE s

\* [f(x) for x in seq]
MapLower(seq) == [i \in 1..Len(seq) |-> Lower(seq[i])]

\* seq[:n]
Take(seq, n) == IF Len(seq) <= n THEN seq ELSE SubSeq(seq, 1, n)

\* The elements of a list, as a set.
Range(seq) == {seq[i] : i \in 1..Len(seq)}

\* get_full_language_name: 'en' -> 'English', unknown codes capitalized.
get_full_language_name(lang_code) ==
  CASE lang_code = "en" -> "English"
    [] lang_code = "fr" -> "French"
    [] OTHER -> lang_code

\* ---------------------------------------------------- the Plex library

\* The userRating (tenths; 0 is "no rating") of the library's movies: movie
\* 1 is rated 8.4, movie 2 is rated 4.0, movie 3 is not rated.
CatalogRating(id) ==
  CASE id % 3 = 1 -> 84
    [] id % 3 = 2 -> 40
    [] OTHER      -> 0

\* The titles of the library's movies.
Titles == <<"Alien", "Brazil", "Casino">>

Title(id) == IF id \in DOMAIN Titles THEN Titles[id] ELSE "untitled"

\* The Plex movie object of rating key id whose userRating is ur: what
\* movies_section.all() returns and update_cache reads.  langCode "" is a
\* movie with no audio language.
PlexMovie(id, ur) ==
  [ratingKey      |-> id,
   title          |-> Title(id),
   year           |-> 2000 + id,
   genres         |-> IF id % 2 = 1 THEN <<"Action", "Drama">> ELSE <<"Action">>,
   directors      |-> <<id>>,
   roles          |-> <<10 + id, 20 + id, 30 + id, 40 + id>>,
   langCode       |-> IF id % 2 = 1 THEN "en" ELSE "",
   tmdbGuid       |-> 100 + id,
   imdbGuid       |-> 200 + id,
   userRating     |-> ur,
   audienceRating |-> 0,
   rating         |-> ur]

\* ------------------------------------------------------------ MovieCache

\* The cache a MovieCache starts from when the file is missing or unreadable.
EmptyCache == [movies |-> EmptyDict, last_updated |-> 0, library_count |-> 0]

\* The metadata cache file: missing, present but unreadable, present but
\* not valid JSON, or a JSON document.
DiskMissing == [kind |-> "missing", doc |-> EmptyDict]

DiskUnreadable == [kind |-> "unreadable", doc |-> EmptyDict]

DiskInvalid == [kind |-> "invalid", doc |-> EmptyDict]

DiskJson(doc) == [kind |-> "json", doc |-> doc]

\* JSON documents that are not caches written by _save_cache: objects
\* lacking 'movies' and/or 'library_count'.
ForeignDocs ==
  { EmptyDict,
    [movies |-> EmptyDict],
    [library_count |-> 0],
    [library_count |-> 1] }

\* MovieCache._load_cache
_load_cache(d) ==
  IF d.kind = "missing" THEN EmptyCache
  ELSE IF d.kind = "json" THEN d.doc
  ELSE EmptyCache

\* MovieCache._get_movie_language
_get_movie_language(movie) ==
  IF movie.langCode = "" THEN "N/A" ELSE get_full_language_name(movie.langCode)

\* The rating update_cache extracts: userRating first, then audienceRating.
ExtractRating(movie) ==
  IF movie.userRating # 0 THEN movie.userRating
  ELSE IF movie.audienceRating # 0 THEN movie.audienceRating
  ELSE 0

\* The record update_cache stores for a movie (movie_info).
MovieInfo(movie) ==
  [title         |-> movie.title,
   year          |-> movie.year,
   genres        |-> MapLower(movie.genres),
   directors     |-> movie.directors,
   cast          |-> Take(movie.roles, 3),
   language      |-> _get_movie_language(movie),
   tmdb_keywords |-> <<>>,
   tmdb_id       |-> movie.tmdbGuid,
   imdb_id       |-> movie.imdbGuid,
   ratings       |-> IF ExtractRating(movie) > 0
                     THEN [audience_rating |-> ExtractRating(movie)]
                     ELSE EmptyDict]

\* F applied to the value of x (x is evaluated once).
With(x, F(_)) == CHOOSE v \in {F(y) : y \in {x}} : TRUE

\* dict restricted to the keys in S
Restrict(f, S) == [k \in (DOMAIN f) \cap S |-> f[k]]

\* all_movies for a library: one movie object per rating key, in key order.
RECURSIVE AllMoviesFrom(_, _)
AllMoviesFrom(lib, k) ==
  IF k > MaxMovies THEN <<>>
  ELSE IF k \in DOMAIN lib THEN <<lib[k]>> \o AllMoviesFrom(lib, k + 1)
  ELSE AllMoviesFrom(lib, k + 1)

AllMovies(lib) == AllMoviesFrom(lib, 1)

\* [movie for movie in all_movies if str(movie.ratingKey) not in existing_ids]
MutNewMoviesAll(all_movies, existing_ids) == all_movies

NewMovies(all_movies, existing_ids) ==
  SelectSeq(all_movies, LAMBDA m : m.ratingKey \notin existing_ids)

\* The loop over new_movies: reload each, store its record unless the
\* reload or the processing raised (then `continue`).  st is
\* [movies, fetches, failed, stored]: the records, the number of reloads
\* per rating key, the keys whose processing raised and the keys whose
\* record was assigned; raises is the set of rating keys whose processing
\* raises in this call.
MutFetchStepAbort(st, movie, raises) ==
  IF st.failed # {} THEN st
  ELSE IF movie.ratingKey \in raises
  THEN [st EXCEPT !.fetches[movie.ratingKey] = @ + 1,
                  !.failed = @ \cup {movie.ratingKey}]
  ELSE [st EXCEPT !.fetches[movie.ratingKey] = @ + 1,
                  !.stored = @ \cup {movie.ratingKey},
                  !.movies = (movie.ratingKey :> MovieInfo(movie)) @@ @]

FetchStep(st, movie, raises) ==
  IF movie.ratingKey \in raises
  THEN [st EXCEPT !.fetches[movie.ratingKey] = @ + 1,
                  !.failed = @ \cup {movie.ratingKey}]
  ELSE [st EXCEPT !.fetches[movie.ratingKey] = @ + 1,
                  !.stored = @ \cup {movie.ratingKey},
                  !.movies = (movie.ratingKey :> MovieInfo(movie)) @@ @]

RECURSIVE FetchLoop(_, _, _, _)
FetchLoop(st, new_movies, i, raises) ==
  IF i > Len(new_movies) THEN st
  ELSE FetchLoop(FetchStep(st, new_movies[i], raises), new_movies, i + 1, raises)

\* set(self.cache['movies'].keys()) - current_movies
MutRemovedNone(cached, current_movies) == {}

Removed(cached, current_movies) == cached \ current_movies

\* The library_count update_cache stores before saving.
MutCheckpointCached(current_count, movies) == Cardinality(DOMAIN movies)

Checkpoint(current_count, movies) == current_count

\* Whether update_cache takes the "up to date" early return.
UpToDate(current_count, c) == current_count = c.library_count

\* The value update_cache returns after a full pass (`return True`).
MutReturnRemoved(removed, stored) == removed # {}

ReturnValue(removed, stored) == TRUE

\* A call's outcome before any call: ret is what the call returned, before
\* the cached keys when it started, live the library's rating keys,
\* fetches the reloads per rating key, failed the keys whose processing
\* raised, stored the keys whose record was assigned, removed the keys
\* deleted, saved how _save_cache ended ("none": not called).
NoCall ==
  [ret |-> "none", before |-> {}, live |-> {},
   fetches |-> [i \in Ids |-> 0], failed |-> {}, stored |-> {},
   removed |-> {}, saved |-> "none"]

\* MovieCache.update_cache(plex, ...): the result of one call on cache c
\* against library lib, where raises is the set of rating keys whose
\* processing raises: [out, cache], the call's outcome and self.cache after
\* it.  out.ret is "raised" (KeyError on a cache lacking a field), "False"
\* (early return), or "True".
update_cache(c, lib, raises) ==
  LET all_movies     == AllMovies(lib)
      current_count  == Len(all_movies)
      current_movies == {all_movies[i].ratingKey : i \in 1..Len(all_movies)}
      before         == IF "movies" \in DOMAIN c THEN DOMAIN c.movies ELSE {}
      base           == [NoCall EXCEPT !.before = before, !.live = current_movies]
  IN
  IF "library_count" \notin DOMAIN c THEN [out |-> [base EXCEPT !.ret = "raised"], cache |-> c]
  ELSE IF UpToDate(current_count, c) THEN [out |-> [base EXCEPT !.ret = "False"], cache |-> c]
  ELSE IF "movies" \notin DOMAIN c THEN [out |-> [base EXCEPT !.ret = "raised"], cache |-> c]
  ELSE
    LET removed      == Removed(DOMAIN c.movies, current_movies)
        kept         == Restrict(c.movies, (DOMAIN c.movies) \ removed)
        existing_ids == DOMAIN kept
        new_movies   == NewMovies(all_movies, existing_ids)
        st           == FetchLoop([movies  |-> kept,
                                   fetches |-> [i \in Ids |-> 0],
                                   failed  |-> {},
                                   stored  |-> {}],
                                  new_movies, 1, raises)
    IN [out   |-> [base EXCEPT !.ret     = IF ReturnValue(removed, st.stored)
                                           THEN "True" ELSE "False",
                               !.fetches = st.fetches,
                               !.failed  = st.failed,
                               !.stored  = st.stored,
                               !.removed = removed,
                               !.saved   = "called"],
        cache |-> [c EXCEPT !.movies = st.movies,
                            !.library_count = Checkpoint(current_count, st.movies),
                            !.last_updated = 1]]

\* MovieCache._save_cache: the file after the write.  The write may fail
\* (the exception is caught and printed): before the file is opened, which
\* leaves it as it was, or midway, which leaves a truncated file.
SaveOutcomes == {"written", "not_opened", "truncated"}

_save_cache(d, c, outcome) ==
  CASE outcome = "written"    -> DiskJson(c)
    [] outcome = "not_opened" -> d
    [] outcome = "truncated"  -> DiskInvalid

\* --------------------------------------------- taste-profile counters

\* RATING_MULTIPLIERS (tenths): 0 -> 0.1, 1 -> 0.2, 2 -> 0.4, ..., 10 -> 2.0.
RATING_MULTIPLIERS == [r \in 0..10 |-> IF r = 0 THEN 1 ELSE 2 * r]

\* dict.get(k, default)
DictGet(d, k, default) == IF k \in DOMAIN d THEN d[k] ELSE default

\* int(round(x)) for x >= 0 in tenths: Python rounds halves to even.
PyRound(t) ==
  LET q == t \div 10
      r == t % 10
  IN IF r < 5 THEN q
     ELSE IF r > 5 THEN q + 1
     ELSE IF q % 2 = 0 THEN q ELSE q + 1

\* max(0, min(10, x))
Clamp(x) == IF x < 0 THEN 0 ELSE IF x > 10 THEN 10 ELSE x

\* The multiplier _process_movie_counters_from_cache derives from a cache
\* record: the top-level 'user_rating', else the top-level
\* 'audience_rating', else 5.0.
RatingMultiplier(movie_info) ==
  LET user   == DictGet(movie_info, "user_rating", 0)
      rating == IF user = 0 THEN DictGet(movie_info, "audience_rating", 50)
                ELSE user
  IN DictGet(RATING_MULTIPLIERS, Clamp(PyRound(rating)), 10)

\* Counter()[k] += m
CounterAdd(c, k, m) ==
  IF k \in DOMAIN c THEN [c EXCEPT ![k] = @ + m] ELSE (k :> m) @@ c

\* for k in seq: counter[k] += m
RECURSIVE CounterAddAll(_, _, _, _)
CounterAddAll(c, seq, i, m) ==
  IF i > Len(seq) THEN c
  ELSE CounterAddAll(CounterAdd(c, seq[i], m), seq, i + 1, m)

\* A Python set and a Python list (what json.load gives back for a set
\* that was dumped as a list).
PySet(S) == [type |-> "set", elems |-> S]

PyList(q) == [type |-> "list", elems |-> q]

\* The counters a scan of the watch history starts from.
EmptyCounters ==
  [genres |-> EmptyDict, directors |-> EmptyDict, actors |-> EmptyDict,
   languages |-> EmptyDict, tmdb_keywords |-> EmptyDict,
   tmdb_ids |-> PySet({})]

\* bool(d) of a dict: it has a key.
Truthy(d) == DOMAIN d # {}

\* Whether some record of the cache has movie_info's title and year (the
\* movie_id lookup before the keyword counters are fed).
HasCacheKey(movie_info, movies) ==
  \E k \in DOMAIN movies :
     movies[k].title = movie_info.title /\ movies[k].year = movie_info.year

\* PlexMovieRecommender._process_movie_counters_from_cache
_process_movie_counters_from_cache(movie_info, counters, movies) ==
  LET multiplier == RatingMultiplier(movie_info)
      language   == DictGet(movie_info, "language", "")
      keywords   == IF DictGet(movie_info, "tmdb_id", 0) # 0
                       /\ HasCacheKey(movie_info, movies)
                    THEN DictGet(movie_info, "tmdb_keywords", <<>>)
                    ELSE <<>>
  IN [counters EXCEPT
        !.genres        = CounterAddAll(@, DictGet(movie_info, "genres", <<>>),
                                        1, multiplier),
        !.directors     = CounterAddAll(@, DictGet(movie_info, "directors", <<>>),
                                        1, multiplier),
        !.actors        = CounterAddAll(@, Take(DictGet(movie_info, "cast", <<>>), 3),
                                        1, multiplier),
        !.languages     = IF language # ""
                          THEN CounterAdd(@, Lower(language), multiplier)
                          ELSE @,
        !.tmdb_keywords = CounterAddAll(@, keywords, 1, multiplier)]

\* The loop over the watched rating keys: every key with a cache record
\* feeds the counters and adds its TMDB id.
RECURSIVE ProcessWatched(_, _, _, _)
ProcessWatched(ids, movies, counters, k) ==
  IF k > MaxMovies THEN counters
  ELSE IF k \in ids /\ k \in DOMAIN movies
  THEN ProcessWatched(ids, movies,
         With(_process_movie_counters_from_cache(movies[k], counters, movies),
              LAMBDA c :
                IF DictGet(movies[k], "tmdb_id", 0) # 0
                THEN [c EXCEPT !.tmdb_ids = PySet(@.elems \cup {movies[k].tmdb_id})]
                ELSE c),
         k + 1)
  ELSE ProcessWatched(ids, movies, counters, k + 1)

\* A set of rating keys as the list json.dump writes (in key order).
RECURSIVE ListOf(_)
ListOf(S) ==
  IF S = {} THEN <<>>
  ELSE LET least == CHOOSE x \in S : \A y \in S : x <= y
       IN <<least>> \o ListOf(S \ {least})

\* ------------------------------------- PlexMovieRecommender.__init__

\* The run's configuration: where the watch history comes from and whether
\* the run covers a single user.
Modes == [source : {"tautulli", "managed"}, single : BOOLEAN]

\* The watched cache file of the run's user context.
WMissing == [kind |-> "missing", doc |-> EmptyDict]

WInvalid == [kind |-> "invalid", doc |-> EmptyDict]

WJson(doc) == [kind |-> "json", doc |-> doc]

\* The recommender's fields set at the top of __init__.
NewSelf ==
  [cached_watched_count |-> 0, watched_data_counters |-> EmptyDict,
   watched_movie_ids |-> {}, watched_data |-> EmptyDict]

\* The rating keys the history source reports for the run's users: the
\* Tautulli history keeps a movie that left the library, the managed-user
\* scan searches the library.
HistoryKeys(m, hist, lib) ==
  IF m.source = "tautulli" THEN hist ELSE hist \cap DOMAIN lib

\* PlexMovieRecommender._get_watched_count: the number of watched rating
\* keys, or 0 when the users cannot be resolved / the server is unreachable.
_get_watched_count(m, hist, lib, countOk) ==
  IF countOk THEN Cardinality(HistoryKeys(m, hist, lib)) ELSE 0

\* _get_tautulli_watched_movies_data / _get_managed_users_watched_data on
\* self: [self, data].  gatherOk is whether the users resolve and their
\* history can be read.
_get_tautulli_watched_movies_data(self, m, hist, lib, movies, gatherOk) ==
  IF ~m.single /\ Truthy(self.watched_data_counters)
  THEN [self |-> self, data |-> self.watched_data_counters]
  ELSE IF ~gatherOk THEN [self |-> self, data |-> EmptyCounters]
  ELSE LET ids == HistoryKeys(m, hist, lib)
       IN [self |-> [self EXCEPT !.watched_movie_ids = @ \cup ids],
           data |-> ProcessWatched(ids, movies, EmptyCounters, 1)]

_get_managed_users_watched_data(self, m, hist, lib, movies, gatherOk) ==
  IF ~m.single /\ Truthy(self.watched_data_counters)
  THEN [self |-> self, data |-> self.watched_data_counters]
  ELSE IF Truthy(self.watched_data_counters)
  THEN [self |-> self, data |-> self.watched_data_counters]
  ELSE IF ~gatherOk THEN [self |-> self, data |-> EmptyCounters]
  ELSE LET ids == HistoryKeys(m, hist, lib)
       IN [self |-> [self EXCEPT !.watched_movie_ids = @ \cup ids],
           data |-> ProcessWatched(ids, movies, EmptyCounters, 1)]

\* The gathering call both __init__ and _refresh_watched_data make.
GatherWatched(self, m, hist, lib, movies, gatherOk) ==
  IF m.source = "tautulli"
  THEN _get_tautulli_watched_movies_data(self, m, hist, lib, movies, gatherOk)
  ELSE _get_managed_users_watched_data(self, m, hist, lib, movies, gatherOk)

\* The counters as json.dump writes them: the tmdb_ids set becomes a list.
CountersForCache(c) ==
  IF "tmdb_ids" \in DOMAIN c /\ c.tmdb_ids.type = "set"
  THEN [c EXCEPT !.tmdb_ids = PyList(ListOf(@.elems))] ELSE c

\* PlexMovieRecommender._save_watched_cache: the file after the write
\* (a failing write is caught and leaves the file as it was).
_save_watched_cache(self, wf, written) ==
  IF written
  THEN WJson([watched_count         |-> self.cached_watched_count,
              watched_data_counters |-> CountersForCache(self.watched_data_counters),
              watched_movie_ids     |-> ListOf(self.watched_movie_ids)])
  ELSE wf

\* PlexMovieRecommender._refresh_watched_data: [self, wf]
_refresh_watched_data(self, wf, m, hist, lib, movies, gatherOk, written) ==
  With(GatherWatched(self, m, hist, lib, movies, gatherOk),
       LAMBDA g :
         With([g.self EXCEPT !.watched_data = g.data,
                             !.watched_data_counters = g.data],
              LAMBDA s1 :
                [self |-> s1, wf |-> _save_watched_cache(s1, wf, written)]))

\* __init__, "Load watched cache": [self, wf]
LoadWatchedCache(self, wf, m, hist, lib, movies, gatherOk, written) ==
  IF wf.kind = "missing" THEN [self |-> self, wf |-> wf]
  ELSE IF wf.kind = "invalid"
  THEN _refresh_watched_data(self, wf, m, hist, lib, movies, gatherOk, written)
  ELSE With([self EXCEPT
               !.cached_watched_count  = DictGet(wf.doc, "watched_count", 0),
               !.watched_data_counters = DictGet(wf.doc, "watched_data_counters", EmptyDict),
               !.watched_movie_ids     = Range(DictGet(wf.doc, "watched_movie_ids", <<>>))],
            LAMBDA s1 :
              IF s1.watched_movie_ids = {} /\ s1.cached_watched_count > 0
              THEN _refresh_watched_data(s1, wf, m, hist, lib, movies, gatherOk, written)
              ELSE [self |-> s1, wf |-> wf])

\* Whether __init__ gathers the watched data: no cache file, or the
\* watched count changed.
MustGather(cache_exists, current_watched_count, cached_watched_count) ==
  ~cache_exists \/ current_watched_count # cached_watched_count

\* __init__ after the watched cache is loaded (ld is [self, wf], wf0 the
\* file as it was when the run started): prune the watched ids to the
\* library, then gather the watched data or use the cached counters.
\* [self, wf, loaded, current, gathered], where loaded is the cached
\* watched count the gate compares with, current the watched count now,
\* gathered whether the gathering branch ran.
WatchedGate(ld, wf0, m, hist, lib, movies, current, gatherOk, written) ==
  With([ld.self EXCEPT !.watched_movie_ids = @ \cap DOMAIN lib],
       LAMBDA pruned :
         IF MustGather(ld.wf.kind # "missing", current, pruned.cached_watched_count)
         THEN With(GatherWatched(pruned, m, hist, lib, movies, gatherOk),
                   LAMBDA g :
                     With([g.self EXCEPT !.watched_data = g.data,
                                         !.watched_data_counters = g.data,
                                         !.cached_watched_count = current],
                          LAMBDA s1 :
                            [self |-> s1,
                             wf |-> _save_watched_cache(s1, ld.wf, written),
                             loaded |-> pruned.cached_watched_count,
                             current |-> current,
                             gathered |-> TRUE]))
         ELSE [self |-> [pruned EXCEPT
                           !.watched_data = pruned.watched_data_counters,
                           !.watched_movie_ids =
                              IF @ = {} /\ wf0.kind = "json"
                                 /\ "watched_movie_ids" \in DOMAIN wf0.doc
                              THEN Range(wf0.doc.watched_movie_ids)
                              ELSE @],
               wf |-> ld.wf,
               loaded |-> pruned.cached_watched_count,
               current |-> current,
               gathered |-> FALSE])

\* __init__ from "Load watched cache" to its end, on the metadata cache
\* `movies`.
InitWatched(wf, m, hist, lib, movies, countOk, gatherOk, written) ==
  With(LoadWatchedCache(NewSelf, wf, m, hist, lib, movies, gatherOk, written),
       LAMBDA ld :
         WatchedGate(ld, wf, m, hist, lib, movies,
                     _get_watched_count(m, hist, lib, countOk),
                     gatherOk, written))

\* ---------------------------------------------------- similarity scoring

\* Scores are held in thousandths: Scale is the score 1.0.
Scale == 1000

\* The configured weights, in hundredths (25 is 0.25).
DefaultWeights ==
  [genre_weight |-> 25, director_weight |-> 20, actor_weight |-> 20,
   language_weight |-> 10, keyword_weight |-> 25]

\* min() that returns its first argument: the clamp left out.
MutMinFirst(a, b) == a

Min(a, b) == IF a <= b THEN a ELSE b

\* floor(sqrt(x)), searched in lo..hi.
RECURSIVE IsqrtIn(_, _, _)
IsqrtIn(x, lo, hi) ==
  IF lo >= hi THEN lo
  ELSE IF ((lo + hi + 1) \div 2) * ((lo + hi + 1) \div 2) <= x
       THEN IsqrtIn(x, (lo + hi + 1) \div 2, hi)
       ELSE IsqrtIn(x, lo, ((lo + hi + 1) \div 2) - 1)

\* math.sqrt(count / max_count), in thousandths.
SqrtRatio(count, max_count) ==
  IsqrtIn((count * Scale * Scale) \div max_count, 0, 4 * Scale)

\* The smallest count taken for the largest.
MutMaxCountSmallest(counter) ==
  IF DOMAIN counter = {} THEN 10
  ELSE CHOOSE m \in {counter[k] : k \in DOMAIN counter} :
         \A k \in DOMAIN counter : m <= counter[k]

\* max(counter.values()) if counter else 1 (counts are in tenths).
MaxCount(counter) ==
  IF DOMAIN counter = {} THEN 10
  ELSE CHOOSE m \in {counter[k] : k \in DOMAIN counter} :
         \A k \in DOMAIN counter : counter[k] <= m

\* user_prefs and max_counts of _calculate_similarity_from_cache
UserPrefs(watched_data) ==
  [genres    |-> DictGet(watched_data, "genres", EmptyDict),
   directors |-> DictGet(watched_data, "directors", EmptyDict),
   actors    |-> DictGet(watched_data, "actors", EmptyDict),
   languages |-> DictGet(watched_data, "languages", EmptyDict),
   keywords  |-> DictGet(watched_data, "tmdb_keywords", EmptyDict)]

\* normalized_score of a value seen count times in a dimension whose
\* maximum is max_count.
NormalizedScore(count, max_count, normalize_counters) ==
  IF normalize_counters THEN SqrtRatio(count, max_count)
  ELSE Min((count * Scale) \div max_count, Scale)

\* set(list) as a list without repetitions (first occurrences).
RECURSIVE DedupFrom(_, _, _)
DedupFrom(seq, i, acc) ==
  IF i > Len(seq) THEN acc
  ELSE DedupFrom(seq, i + 1,
                 IF seq[i] \in Range(acc) THEN acc ELSE Append(acc, seq[i]))

\* The loop over a candidate's values of one dimension: the sum of the
\* normalized scores of the values the profile has (count > 0) and their
\* number, from position i on.
RECURSIVE MatchedScores(_, _, _, _, _)
MatchedScores(values, counter, max_count, normalize_counters, i) ==
  IF i > Len(values) THEN [sum |-> 0, n |-> 0]
  ELSE With(MatchedScores(values, counter, max_count, normalize_counters, i + 1),
            LAMBDA rest :
              IF DictGet(counter, values[i], 0) > 0
              THEN [sum |-> rest.sum + NormalizedScore(counter[values[i]], max_count,
                                                        normalize_counters),
                    n   |-> rest.n + 1]
              ELSE rest)

\* (sum(scores) / len(scores)) * weight, 0 when nothing matched.
MeanTimesWeight(m, weight) ==
  IF m.n = 0 THEN 0 ELSE ((m.sum \div m.n) * weight) \div 100

\* The actor dimension: the mean is scaled by 3 / matched beyond 3 matches.
ActorFinal(m, weight) ==
  IF m.n = 0 THEN 0
  ELSE IF m.n > 3 THEN ((((m.sum \div m.n) * 3) \div m.n) * weight) \div 100
  ELSE ((m.sum \div m.n) * weight) \div 100

\* The language dimension of _calculate_similarity_from_cache.
LanguageFinal(movie_info, counter, normalize_counters, weight) ==
  LET movie_language == DictGet(movie_info, "language", "N/A")
      lang_count     == DictGet(counter, Lower(movie_language), 0)
  IN IF movie_language # "N/A" /\ lang_count > 0
     THEN (NormalizedScore(lang_count, MaxCount(counter), normalize_counters) * weight)
          \div 100
     ELSE 0

\* PlexMovieRecommender._calculate_similarity_from_cache: the score and the
\* five contributions of the breakdown.
_calculate_similarity_from_cache(movie_info, watched_data, weights, normalize_counters, use_tmdb_keywords) ==
  With(UserPrefs(watched_data),
       LAMBDA user_prefs :
         With([genre_score |->
                 MeanTimesWeight(
                   MatchedScores(DedupFrom(DictGet(movie_info, "genres", <<>>), 1, <<>>),
                                 user_prefs.genres, MaxCount(user_prefs.genres),
                                 normalize_counters, 1),
                   DictGet(weights, "genre_weight", 25)),
               director_score |->
                 MeanTimesWeight(
                   MatchedScores(DictGet(movie_info, "directors", <<>>),
                                 user_prefs.directors, MaxCount(user_prefs.directors),
                                 normalize_counters, 1),
                   DictGet(weights, "director_weight", 20)),
               actor_score |->
                 ActorFinal(
                   MatchedScores(DictGet(movie_info, "cast", <<>>),
                                 user_prefs.actors, MaxCount(user_prefs.actors),
                                 normalize_counters, 1),
                   DictGet(weights, "actor_weight", 20)),
               language_score |->
                 LanguageFinal(movie_info, user_prefs.languages, normalize_counters,
                               DictGet(weights, "language_weight", 10)),
               keyword_score |->
                 IF use_tmdb_keywords
                 THEN MeanTimesWeight(
                        MatchedScores(DictGet(movie_info, "tmdb_keywords", <<>>),
                                      user_prefs.keywords, MaxCount(user_prefs.keywords),
                                      normalize_counters, 1),
                        DictGet(weights, "keyword_weight", 25))
                 ELSE 0],
              LAMBDA b :
                [score |-> Min(b.genre_score + b.director_score + b.actor_score
                               + b.language_score + b.keyword_score, Scale),
                 score_breakdown |-> b]))

\* ------------------------------------------------------ recommendations

\* Sampling with replacement.
MutSamplesRepeating(n, k) == [1..k -> 1..n]

\* The sequences of k different positions of a list of n elements: the
\* outcomes of random.sample(list, k) and, for k = n, of random.shuffle.
Samples(n, k) ==
  { q \in [1..k -> 1..n] : \A i, j \in 1..k : i # j => q[i] # q[j] }

\* [seq[i] for i in pick]
PickFrom(seq, pick) == [i \in 1..Len(pick) |-> seq[pick[i]]]

\* list.sort(key=.., reverse=True) on items carrying their key in field k:
\* descending, items with equal keys in their original order.
InsertDesc(sorted, x) ==
  LET n == Cardinality({i \in 1..Len(sorted) : sorted[i].k >= x.k})
  IN SubSeq(sorted, 1, n) \o <<x>> \o SubSeq(sorted, n + 1, Len(sorted))

RECURSIVE SortDescFrom(_, _, _)
SortDescFrom(seq, i, acc) ==
  IF i > Len(seq) THEN acc
  ELSE SortDescFrom(seq, i + 1, InsertDesc(acc, seq[i]))

SortDesc(seq) == SortDescFrom(seq, 1, <<>>)

\* The genre filter left out.
MutHasExcludedGenreNever(genres, exclude_genres) == FALSE

\* any(g in exclude_genres for g in genres)
HasExcludedGenre(genres, exclude_genres) ==
  \E i \in 1..Len(genres) : genres[i] \in exclude_genres

\* get_recommendations, "Filter out watched movies and excluded genres":
\* the rating keys kept, in the cache's order, from key k on.
RECURSIVE UnwatchedFrom(_, _, _, _)
UnwatchedFrom(all_movies, watched_movie_ids, exclude_genres, k) ==
  IF k > MaxMovies THEN <<>>
  ELSE (IF k \in DOMAIN all_movies
           /\ k \notin watched_movie_ids
           /\ ~HasExcludedGenre(DictGet(all_movies[k], "genres", <<>>), exclude_genres)
        THEN <<k>> ELSE <<>>)
       \o UnwatchedFrom(all_movies, watched_movie_ids, exclude_genres, k + 1)

\* get_recommendations, "Calculate similarity scores": every kept record
\* gets its similarity_score and score_breakdown; the items are
\* [id, movie_info, k] with k the similarity score.
ScoredMovies(unwatched, all_movies, watched_data, config) ==
  [i \in 1..Len(unwatched) |->
     With(_calculate_similarity_from_cache(all_movies[unwatched[i]], watched_data,
            config.weights, config.normalize_counters, config.use_tmdb_keywords),
          LAMBDA r :
            [id |-> unwatched[i],
             movie_info |-> [similarity_score |-> r.score,
                             score_breakdown |-> r.score_breakdown]
                            @@ all_movies[unwatched[i]],
             k |-> r.score])]

\* The cache after scoring: the scored records are the cache's own dicts.
CacheAfterScoring(all_movies, scored) ==
  [k \in DOMAIN all_movies |->
     IF \E i \in 1..Len(scored) : scored[i].id = k
     THEN (CHOOSE x \in Range(scored) : x.id = k).movie_info
     ELSE all_movies[k]]

\* The pool the library recommendations are drawn from when
\* randomize_recommendations is on: the top 10% by similarity, at least
\* limit_plex_results.
TopPool(scored_movies, limit) ==
  Take(scored_movies, IF Len(scored_movies) \div 10 > limit
                      THEN Len(scored_movies) \div 10 ELSE limit)

\* PlexMovieRecommender._is_movie_in_library for a title without a
\* "(year)" suffix: by TMDB or IMDb id among the cache records, then by
\* lowercased title and year, then by lowercased title alone.  Absent ids
\* are 0.
_is_movie_in_library(title, year, tmdb_id, imdb_id, all_movies, library_movie_titles) ==
  \/ /\ tmdb_id # 0 \/ imdb_id # 0
     /\ \E k \in DOMAIN all_movies :
          \/ tmdb_id # 0 /\ DictGet(all_movies[k], "tmdb_id", 0) # 0
               /\ all_movies[k].tmdb_id = tmdb_id
          \/ imdb_id # 0 /\ DictGet(all_movies[k], "imdb_id", 0) # 0
               /\ all_movies[k].imdb_id = imdb_id
  \/ /\ title # ""
     /\ \/ <<Lower(title), year>> \in library_movie_titles
        \/ \E t \in library_movie_titles : t[1] = Lower(title)

\* _get_library_movie_titles
_get_library_movie_titles(lib) ==
  { <<Lower(lib[k].title), lib[k].year>> : k \in DOMAIN lib }

\* The loop state of get_trakt_recommendations before the first movie.
NoneSeen ==
  [seen_trakt_ids |-> {}, seen_tmdb_ids |-> {}, seen_imdb_ids |-> {},
   seen_titles |-> {}, all_processed_movies |-> <<>>]

\* The seen ids and titles forgotten from one movie to the next.
MutTraktStepForgets(st, m, jitter, all_movies, library_movie_titles, exclude_genres) ==
  IF m.title = ""
     \/ _is_movie_in_library(m.title, m.year, m.ids.tmdb, m.ids.imdb,
                             all_movies, library_movie_titles)
     \/ HasExcludedGenre(MapLower(m.genres), exclude_genres)
  THEN st
  ELSE [st EXCEPT
          !.all_processed_movies =
             Append(@, [movie |-> [title |-> m.title, year |-> m.year,
                                   ratings |-> [audience_rating |-> m.rating,
                                                votes |-> 0],
                                   summary |-> "",
                                   genres |-> MapLower(m.genres),
                                   cast |-> <<>>, directors |-> <<>>,
                                   language |-> "N/A",
                                   imdb_id |-> m.ids.imdb],
                        tmdb_id |-> m.ids.tmdb,
                        trakt_id |-> m.ids.trakt,
                        k |-> m.rating + jitter])]

\* One iteration of the loops of get_trakt_recommendations over the movie
\* m of a Trakt answer; jitter is the random.uniform(0, 0.5) added to the
\* rating (tenths).  An item of all_processed_movies is the movie_data
\* with its TMDB id, its Trakt id and its _randomized_rating k.
TraktStep(st, m, jitter, all_movies, library_movie_titles, exclude_genres) ==
  IF m.title = "" THEN st
  ELSE IF \/ m.ids.trakt # 0 /\ m.ids.trakt \in st.seen_trakt_ids
          \/ m.ids.tmdb # 0 /\ m.ids.tmdb \in st.seen_tmdb_ids
          \/ m.ids.imdb # 0 /\ m.ids.imdb \in st.seen_imdb_ids
  THEN st
  ELSE IF _is_movie_in_library(m.title, m.year, m.ids.tmdb, m.ids.imdb,
                               all_movies, library_movie_titles)
  THEN st
  ELSE With([st EXCEPT
               !.seen_trakt_ids = IF m.ids.trakt # 0 THEN @ \cup {m.ids.trakt} ELSE @,
               !.seen_tmdb_ids  = IF m.ids.tmdb # 0 THEN @ \cup {m.ids.tmdb} ELSE @,
               !.seen_imdb_ids  = IF m.ids.imdb # 0 THEN @ \cup {m.ids.imdb} ELSE @],
            LAMBDA st1 :
              IF <<Lower(m.title), m.year>> \in st1.seen_titles THEN st1
              ELSE IF HasExcludedGenre(MapLower(m.genres), exclude_genres)
              THEN [st1 EXCEPT !.seen_titles = @ \cup {<<Lower(m.title), m.year>>}]
              ELSE [st1 EXCEPT
                      !.seen_titles = @ \cup {<<Lower(m.title), m.year>>},
                      !.all_processed_movies =
                         Append(@, [movie |-> [title |-> m.title, year |-> m.year,
                                               ratings |-> [audience_rating |-> m.rating,
                                                            votes |-> 0],
                                               summary |-> "",
                                               genres |-> MapLower(m.genres),
                                               cast |-> <<>>, directors |-> <<>>,
                                               language |-> "N/A",
                                               imdb_id |-> m.ids.imdb],
                                    tmdb_id |-> m.ids.tmdb,
                                    trakt_id |-> m.ids.trakt,
                                    k |-> m.rating + jitter])])

\* A loop of get_trakt_recommendations over the answer `movies` from
\* position i; jitters[base + i] is the jitter of its i-th movie.
RECURSIVE TraktPass(_, _, _, _, _, _, _, _)
TraktPass(st, movies, i, jitters, base, all_movies, library_movie_titles, exclude_genres) ==
  IF i > Len(movies) THEN st
  ELSE TraktPass(TraktStep(st, movies[i], jitters[base + i], all_movies,
                           library_movie_titles, exclude_genres),
                 movies, i + 1, jitters, base, all_movies, library_movie_titles,
                 exclude_genres)

\* get_trakt_recommendations up to the sort: all_processed_movies after
\* the recommendations pass and, when it gave fewer than
\* limit_trakt_results, the trending pass; then sorted by
\* _randomized_rating, descending.  No metadata is fetched (show_language,
\* show_cast and show_director are off).
TraktSorted(service, jitters, all_movies, library_movie_titles, config) ==
  IF ~service.ok \/ service.recommendations = <<>> THEN <<>>
  ELSE With(TraktPass(NoneSeen, service.recommendations, 1, jitters, 0, all_movies,
                      library_movie_titles, config.exclude_genres),
            LAMBDA st :
              SortDesc(
                IF Len(st.all_processed_movies) < config.limit_trakt_results
                   /\ service.trending_ok
                THEN TraktPass(st, service.trending, 1, jitters,
                               Len(service.recommendations), all_movies,
                               library_movie_titles,
                               config.exclude_genres).all_processed_movies
                ELSE st.all_processed_movies))

\* get_trakt_recommendations from the sort on: shuffled when
\* randomize_recommendations is on (shuffle is the outcome of
\* random.shuffle), then cut to limit_trakt_results.
TraktFinal(sorted, config, shuffle) ==
  Take(IF config.randomize_recommendations THEN PickFrom(sorted, shuffle) ELSE sorted,
       config.limit_trakt_results)

\* ------------------------------------------------------------------ state

VARIABLES
  plex,     \* the live library: rating key -> Plex movie object
  disk,     \* all_movies_cache.json
  obj,      \* "none" before a MovieCache is constructed, then "ready"
  cache,    \* MovieCache.cache
  last,     \* the outcome of the latest update_cache call on this object
  prev,     \* the outcome of the call before it: [ret, live, failed]
  mode,     \* the run's configuration, a member of Modes
  history,  \* the rating keys the run's users have watched
  wfile,    \* watched_cache_<context>.json
  rcm,      \* the PlexMovieRecommender the latest run constructed
  sc,       \* a call of _calculate_similarity_from_cache: arguments, result
  config,   \* the settings the run read from its configuration file
  trakt,    \* what the Trakt service answers
  recs,     \* what the latest get_recommendations call returned
  paths,    \* the cache file paths of two runs over their user contexts
  req,      \* the TMDB lookups of update_cache for one movie
  tsync,    \* the runs of _sync_watched_movies_to_trakt and their cache
  lookup    \* the TMDB id and keyword lookups and their caches

cacheVars == <<plex, disk, obj, cache, last, prev>>

runVars == <<mode, history, wfile, rcm>>

auxVars == <<paths, req, tsync, lookup>>

recVars == <<sc, config, trakt, recs, paths, req, tsync, lookup>>

vars == <<plex, disk, obj, cache, last, prev, mode, history, wfile, rcm,
          sc, config, trakt, recs, paths, req, tsync, lookup>>

NoPrev == [ret |-> "none", live |-> {}, failed |-> {}]

\* No recommender constructed yet.  state is "none", "ready" (__init__
\* completed) or "aborted" (update_cache raised); seen is the set of
\* watched rating keys the history source had for the run, cached the
\* counters held by the watched cache file when the run started, up
\* whether the run's requests to the history source succeeded, library
\* the rating keys of the live library during the run, counted whether
\* _get_watched_count could determine the watched count.
NoRcm ==
  [state |-> "none", self |-> NewSelf, loaded |-> 0, current |-> 0,
   gathered |-> FALSE, seen |-> {}, cached |-> EmptyDict, up |-> TRUE,
   library |-> {}, counted |-> TRUE]

\* No scoring call made.
NoScoring == [state |-> "none"]

InitRun ==
  /\ history = {}
  /\ wfile = WMissing
  /\ rcm = NoRcm

\* The general settings the recommendation claims read, at their defaults
\* but for the limits (show_language, show_cast, show_director and
\* sync_watch_history are off, no TMDB key).
DefaultConfig ==
  [limit_plex_results |-> 1, limit_trakt_results |-> 1,
   randomize_recommendations |-> TRUE, normalize_counters |-> TRUE,
   exclude_genres |-> {}, weights |-> DefaultWeights,
   use_tmdb_keywords |-> TRUE, plex_only |-> FALSE]

\* Trakt unreachable, or the token not valid.
TraktDown ==
  [ok |-> FALSE, recommendations |-> <<>>, trending_ok |-> FALSE, trending |-> <<>>]

\* No get_recommendations call made.
NoRecs ==
  [state |-> "none", program |-> "", watched_movie_ids |-> {},
   scored_movies |-> <<>>, plex_recommendations |-> <<>>,
   processed_movies |-> <<>>, trakt_recommendations |-> <<>>]

\* Nothing of the other operations has run.
Idle == [state |-> "none"]

InitAux ==
  /\ paths = Idle
  /\ req = Idle
  /\ tsync = Idle
  /\ lookup = Idle

InitRec ==
  /\ sc = NoScoring
  /\ config = DefaultConfig
  /\ trakt = TraktDown
  /\ recs = NoRecs
  /\ InitAux

Init ==
  /\ plex = EmptyDict
  /\ disk \in {DiskMissing, DiskUnreadable, DiskInvalid}
               \cup {DiskJson(doc) : doc \in ForeignDocs}
  /\ obj = "none"
  /\ cache = EmptyDict
  /\ last = NoCall
  /\ prev = NoPrev
  /\ mode = [source |-> "tautulli", single |-> FALSE]
  /\ InitRun
  /\ InitRec

\* A movie is added to the library.
PlexAdd ==
  /\ \E id \in Ids \ DOMAIN plex :
       plex' = (id :> PlexMovie(id, CatalogRating(id))) @@ plex
  /\ UNCHANGED <<disk, obj, cache, last, prev>>
  /\ UNCHANGED runVars
  /\ UNCHANGED recVars

\* A movie is removed from the library.
PlexRemove ==
  /\ \E id \in DOMAIN plex : plex' = Restrict(plex, (DOMAIN plex) \ {id})
  /\ UNCHANGED <<disk, obj, cache, last, prev>>
  /\ UNCHANGED runVars
  /\ UNCHANGED recVars

\* MovieCache.__init__: a run constructs the cache object from the file.
MovieCacheInit ==
  /\ cache' = _load_cache(disk)
  /\ obj' = "ready"
  /\ last' = NoCall
  /\ prev' = NoPrev
  /\ UNCHANGED <<plex, disk>>
  /\ UNCHANGED runVars
  /\ UNCHANGED recVars

\* The rating keys a call on cache c may reload: the live keys without a
\* record.  Only their failures can matter to the call.
Fetchable(c, lib) ==
  IF "movies" \in DOMAIN c THEN (DOMAIN lib) \ (DOMAIN c.movies) ELSE DOMAIN lib

\* MovieCache.update_cache
UpdateCache ==
  /\ obj = "ready"
  /\ \E raises \in SUBSET Fetchable(cache, plex) :
       LET r == update_cache(cache, plex, raises) IN
         /\ cache' = r.cache
         /\ IF r.out.saved = "called"
            THEN \E outcome \in SaveOutcomes :
                   /\ disk' = _save_cache(disk, r.cache, outcome)
                   /\ last' = [r.out EXCEPT !.saved = outcome]
            ELSE disk' = disk /\ last' = r.out
  /\ prev' = [ret |-> last.ret, live |-> last.live, failed |-> last.failed]
  /\ UNCHANGED <<plex, obj>>
  /\ UNCHANGED runVars
  /\ UNCHANGED recVars

Next ==
  \/ PlexAdd
  \/ PlexRemove
  \/ MovieCacheInit
  \/ UpdateCache

Spec == Init /\ [][Next]_vars

\* ----------------------------------------------- runs of the recommender

InitStartup ==
  /\ plex = EmptyDict
  /\ disk = DiskMissing
  /\ obj = "none"
  /\ cache = EmptyDict
  /\ last = NoCall
  /\ prev = NoPrev
  /\ mode \in Modes
  /\ InitRun
  /\ InitRec

\* A movie is added to the library.
LibraryAdd ==
  /\ \E id \in Ids \ DOMAIN plex :
       plex' = (id :> PlexMovie(id, CatalogRating(id))) @@ plex
  /\ UNCHANGED <<disk, obj, cache, last, prev>>
  /\ UNCHANGED runVars
  /\ UNCHANGED recVars

\* A movie is removed from the library.
LibraryRemove ==
  /\ \E id \in DOMAIN plex : plex' = Restrict(plex, (DOMAIN plex) \ {id})
  /\ UNCHANGED <<disk, obj, cache, last, prev>>
  /\ UNCHANGED runVars
  /\ UNCHANGED recVars

\* A user of the run watches a library movie.
Watch ==
  /\ \E id \in (DOMAIN plex) \ history : history' = history \cup {id}
  /\ UNCHANGED cacheVars
  /\ UNCHANGED <<mode, wfile, rcm>>
  /\ UNCHANGED recVars

\* PlexMovieRecommender.__init__: construct the MovieCache, update it, load
\* the watched cache and decide whether the watched data is gathered.
\* raises are the rating keys whose processing raises in update_cache,
\* countOk and gatherOk whether the history source answers
\* _get_watched_count and the gathering, written whether the watched cache
\* file can be written.  The metadata cache file is written (its failing
\* writes are those of Spec).
Startup ==
  \E raises \in SUBSET Fetchable(_load_cache(disk), plex) :
    \E r \in {update_cache(_load_cache(disk), plex, raises)} :
      /\ obj' = "ready"
      /\ cache' = r.cache
      /\ prev' = NoPrev
      /\ last' = NoCall
      /\ IF r.out.saved = "called"
         THEN disk' = _save_cache(disk, r.cache, "written")
         ELSE disk' = disk
      /\ IF r.out.ret = "raised"
         THEN /\ rcm' = [NoRcm EXCEPT !.state = "aborted"]
              /\ wfile' = wfile
         ELSE \E countOk \in BOOLEAN, gatherOk \in BOOLEAN, written \in BOOLEAN :
                \E w \in {InitWatched(wfile, mode, history, plex, r.cache.movies,
                                      countOk, gatherOk, written)} :
                  /\ rcm' = [state |-> "ready", self |-> w.self,
                             loaded |-> w.loaded, current |-> w.current,
                             gathered |-> w.gathered,
                             seen |-> HistoryKeys(mode, history, plex),
                             up |-> countOk /\ gatherOk,
                             library |-> DOMAIN plex,
                             counted |-> countOk,
                             cached |-> IF wfile.kind = "json"
                                        THEN DictGet(wfile.doc, "watched_data_counters", EmptyDict)
                                        ELSE EmptyDict]
                  /\ wfile' = w.wf
      /\ UNCHANGED <<plex, mode, history>>
      /\ UNCHANGED recVars

NextStartup ==
  \/ LibraryAdd
  \/ LibraryRemove
  \/ Watch
  \/ Startup

SpecStartup == InitStartup /\ [][NextStartup]_vars

\* ------------------------------------------------- claims: MovieCache

\* The cached rating keys of cache c.
CachedKeys(c) == IF "movies" \in DOMAIN c THEN DOMAIN c.movies ELSE {}

\* A call that returned (did not raise).
Returned(ret) == ret \in {"True", "False"}

\* A cache file holding both fields update_cache reads.
WellFormed(d) ==
  d.kind = "json" /\ {"movies", "library_count"} \subseteq DOMAIN d.doc

\* C1: if between two update_cache calls the library's membership changed
\* while its size stayed the same, the second call deletes the records of
\* the movies that left and reloads and inserts the movies that came.
C1_SwapDetected ==
  ( /\ Returned(prev.ret) /\ Returned(last.ret)
    /\ "movies" \in DOMAIN cache
    /\ prev.live # last.live
    /\ Cardinality(prev.live) = Cardinality(last.live) )
  => /\ (prev.live \ last.live) \cap CachedKeys(cache) = {}
     /\ \A id \in last.live \ prev.live :
          /\ last.fetches[id] >= 1
          /\ id \notin last.failed => id \in CachedKeys(cache)

\* C2: the second of two update_cache calls in a row against the same set
\* of rating keys reloads no movie, assigns and deletes no record and
\* returns False, whatever the first call did (the first call returned).
C2_SecondCallIdle ==
  ( /\ Returned(prev.ret) /\ last.ret # "none"
    /\ prev.live = last.live )
  => /\ last.ret = "False"
     /\ \A id \in Ids : last.fetches[id] = 0
     /\ last.stored = {} /\ last.removed = {}
     /\ CachedKeys(cache) = last.before

C2_Witness ==
  /\ prev.ret = "True" /\ prev.failed # {} /\ prev.live = last.live
  /\ last.ret = "False"

\* C3: a rating key whose processing raised in one update_cache call is
\* reloaded by the next call if it is still in the library.
C3_FailedRetried ==
  ( /\ prev.ret = "True" /\ Returned(last.ret)
    /\ "movies" \in DOMAIN cache )
  => \A id \in prev.failed \cap last.live : last.fetches[id] >= 1

\* C4: when the processing of a new movie raises, the movie gets no record
\* in this pass, the call still returns, every other new movie is stored,
\* and _save_cache is called (the file holds the cache when the write
\* succeeded).
C4_FailureSkipsOne ==
  last.failed # {}
  => /\ last.ret = "True"
     /\ last.failed \cap CachedKeys(cache) = {}
     /\ \A id \in (last.live \ last.before) \ last.failed :
          id \in last.stored /\ id \in CachedKeys(cache)
     /\ last.saved \in SaveOutcomes
     /\ last.saved = "written" => disk = DiskJson(cache)

C4_Witness ==
  /\ last.failed # {} /\ last.stored # {} /\ last.saved = "written"

\* C5 (as stated): update_cache returns True exactly when the set of
\* cached keys after the call differs from the set before it.
C5_TrueIffChanged ==
  Returned(last.ret)
  => (last.ret = "True" <=> CachedKeys(cache) # last.before)

\* C5 (amended): a call that changed the set of cached keys returned True;
\* a call that returned False left the set of cached keys as it was.
C5_ChangedImpliesTrue ==
  Returned(last.ret)
  => (CachedKeys(cache) # last.before => last.ret = "True")

C5_Witness ==
  /\ last.ret = "True" /\ last.stored # {} /\ last.removed = {}
  /\ CachedKeys(cache) # last.before

\* C6: after a call that returned True no cached key is outside the live
\* library and every live key whose processing did not raise has a record.
C6_TrueMeansSynced ==
  last.ret = "True"
  => /\ CachedKeys(cache) \subseteq last.live
     /\ \A id \in last.live \ last.failed : id \in CachedKeys(cache)

C6_Witness ==
  /\ last.ret = "True" /\ last.removed # {} /\ last.stored # {}

\* C7: a call reloads a rating key at most once, and only a key that had
\* no record when the call started; no record that was already cached is
\* assigned.
C7_FetchOnlyMissing ==
  last.ret # "none"
  => /\ \A id \in Ids :
          /\ last.fetches[id] <= 1
          /\ last.fetches[id] >= 1 => id \in last.live \ last.before
     /\ last.stored \cap last.before = {}

C7_Witness ==
  /\ last.ret = "True" /\ last.stored # {}
  /\ last.before \cap last.live # {}

\* C8: whatever the cache file is (missing, unreadable, not valid JSON, or
\* JSON lacking 'movies' / 'library_count'), the constructed MovieCache is
\* empty and the update_cache call that follows does not raise.
C8_BadFileStartsEmpty ==
  /\ (obj = "ready" /\ last.ret = "none" /\ ~WellFormed(disk))
       => cache = EmptyCache
  /\ (prev.ret = "none" /\ ~WellFormed(disk)) => last.ret # "raised"

\* ------------------------------------- claims: watched data at start-up

\* The five counters scoring reads from the watched data.
Profile(c) ==
  [genres        |-> DictGet(c, "genres", EmptyDict),
   directors     |-> DictGet(c, "directors", EmptyDict),
   actors        |-> DictGet(c, "actors", EmptyDict),
   languages     |-> DictGet(c, "languages", EmptyDict),
   tmdb_keywords |-> DictGet(c, "tmdb_keywords", EmptyDict)]

\* The counters a scan of the run's watched set over the metadata cache
\* gives.
FreshCounters == ProcessWatched(rcm.seen, cache.movies, EmptyCounters, 1)

\* C9: when the watched count at start-up differs from the cached one, the
\* counters used for scoring are those of a scan of the current watched
\* set, and the cached watched count advances only with such a scan (in
\* every mode; stated for runs whose requests to the history source
\* succeeded).
C9_CountChangeRebuilds ==
  (rcm.state = "ready" /\ rcm.up)
  => /\ rcm.current # rcm.loaded
          => Profile(rcm.self.watched_data) = Profile(FreshCounters)
     /\ rcm.self.cached_watched_count # rcm.loaded
          => Profile(rcm.self.watched_data) = Profile(FreshCounters)

\* The multiplier the claim gives a cache record: the table's entry for
\* the record's rating, rounded and clamped, and 1.0 without a rating.
ClaimedMultiplier(movie_info) ==
  IF "audience_rating" \in DOMAIN movie_info.ratings
  THEN RATING_MULTIPLIERS[Clamp(PyRound(movie_info.ratings.audience_rating))]
  ELSE 10

\* The weight the claim gives key in a dimension: the sum of the
\* multipliers of the watched movies k..MaxMovies whose record has the key.
RECURSIVE ClaimedWeight(_, _, _)
ClaimedWeight(Keys(_), key, k) ==
  IF k > MaxMovies THEN 0
  ELSE (IF k \in rcm.seen /\ k \in DOMAIN cache.movies
           /\ key \in Keys(cache.movies[k])
        THEN ClaimedMultiplier(cache.movies[k]) ELSE 0)
       + ClaimedWeight(Keys, key, k + 1)

GenreKeys(movie_info) == Range(movie_info.genres)

DirectorKeys(movie_info) == Range(movie_info.directors)

ActorKeys(movie_info) == Range(Take(movie_info.cast, 3))

\* C10: in counters built from the metadata cache's records, a watched
\* movie whose record carries rating r weighs
\* RATING_MULTIPLIERS[clamp(round(r))] in every counter, and 1.0 only when
\* the record has no rating.
C10_RatingWeighsCounters ==
  (rcm.state = "ready" /\ rcm.up /\ rcm.gathered /\ ~Truthy(rcm.cached))
  => /\ \A g \in DOMAIN rcm.self.watched_data.genres :
          rcm.self.watched_data.genres[g] = ClaimedWeight(GenreKeys, g, 1)
     /\ \A d \in DOMAIN rcm.self.watched_data.directors :
          rcm.self.watched_data.directors[d] = ClaimedWeight(DirectorKeys, d, 1)
     /\ \A a \in DOMAIN rcm.self.watched_data.actors :
          rcm.self.watched_data.actors[a] = ClaimedWeight(ActorKeys, a, 1)

\* C20: when __init__ has completed, every id in watched_movie_ids is a
\* rating key of the live library: ids of movies that left the library are
\* pruned and come back neither from the watched cache nor from the
\* gathered watch history.
C20_WatchedIdsInLibrary ==
  rcm.state = "ready" => rcm.self.watched_movie_ids \subseteq rcm.library

\* ------------------------------------------------- scoring one candidate

\* The cache record of a candidate, as update_cache builds it.
CandidateRecord(genres, directors, cast, language, tmdb_keywords) ==
  [title |-> "Alien", year |-> 2001, genres |-> genres, directors |-> directors,
   cast |-> cast, summary |-> "", language |-> language,
   tmdb_keywords |-> tmdb_keywords, tmdb_id |-> 101, imdb_id |-> 201,
   ratings |-> EmptyDict]

ScoreCandidates ==
  { CandidateRecord(g, d, c, l, k) :
      g \in {<<>>, <<"action">>, <<"action", "drama">>},
      d \in {<<>>, <<1>>},
      c \in {<<>>, <<11, 21, 31>>},
      l \in {"N/A", "English"},
      k \in {<<>>, <<"heist">>} }

\* Watched data as the gathering leaves it: counters of summed rating
\* multipliers (tenths).
ScoreProfiles ==
  { [genres |-> g, directors |-> d, actors |-> a, languages |-> l,
     tmdb_keywords |-> k, tmdb_ids |-> PySet({})] :
      g \in {EmptyDict, [action |-> 26], [drama |-> 10],
             [action |-> 26, drama |-> 10], [action |-> 2, drama |-> 26]},
      d \in {EmptyDict, (1 :> 10) @@ (2 :> 26)},
      a \in {EmptyDict, (11 :> 26) @@ (21 :> 10)},
      l \in {EmptyDict, [english |-> 10, french |-> 26]},
      k \in {EmptyDict, [heist |-> 16]} }

\* The default weights, and weights that sum to more than 1.
ScoreWeights ==
  { DefaultWeights,
    [genre_weight |-> 100, director_weight |-> 100, actor_weight |-> 100,
     language_weight |-> 100, keyword_weight |-> 100] }

InitScore ==
  /\ plex = EmptyDict
  /\ disk = DiskMissing
  /\ obj = "none"
  /\ cache = EmptyDict
  /\ last = NoCall
  /\ prev = NoPrev
  /\ mode = [source |-> "tautulli", single |-> FALSE]
  /\ InitRun
  /\ config = DefaultConfig
  /\ trakt = TraktDown
  /\ recs = NoRecs
  /\ InitAux
  /\ sc \in [state : {"args"}, movie_info : ScoreCandidates,
             watched_data : ScoreProfiles, weights : ScoreWeights,
             normalize_counters : BOOLEAN, use_tmdb_keywords : BOOLEAN]

\* One call of _calculate_similarity_from_cache.
Score ==
  /\ sc.state = "args"
  /\ \E r \in {_calculate_similarity_from_cache(sc.movie_info, sc.watched_data,
                  sc.weights, sc.normalize_counters, sc.use_tmdb_keywords)} :
       sc' = [state |-> "scored", movie_info |-> sc.movie_info,
              watched_data |-> sc.watched_data, weights |-> sc.weights,
              normalize_counters |-> sc.normalize_counters,
              use_tmdb_keywords |-> sc.use_tmdb_keywords,
              score |-> r.score, score_breakdown |-> r.score_breakdown]
  /\ UNCHANGED cacheVars
  /\ UNCHANGED runVars
  /\ UNCHANGED <<config, trakt, recs>>
  /\ UNCHANGED auxVars

NextScore == Score

SpecScore == InitScore /\ [][NextScore]_vars

\* ---------------------------------------------------- claims: scoring

\* The profile without its genre entry g.
WithoutGenre(watched_data, g) ==
  [watched_data EXCEPT
     !.genres = Restrict(@, (DOMAIN @) \ {g})]

\* C11: adding to the profile one genre entry that matches a genre of the
\* candidate, the rest of the profile and the genre maximum unchanged,
\* does not decrease the candidate's score.
C11_ExtraGenreMatchNoDecrease ==
  sc.state = "scored"
  => \A g \in (DOMAIN sc.watched_data.genres) \cap Range(sc.movie_info.genres) :
       MaxCount(WithoutGenre(sc.watched_data, g).genres)
         = MaxCount(sc.watched_data.genres)
       => _calculate_similarity_from_cache(
            sc.movie_info, WithoutGenre(sc.watched_data, g), sc.weights,
            sc.normalize_counters, sc.use_tmdb_keywords).score <= sc.score

\* C18: the score lies in [0, 1] and is min(1, sum of the five
\* contributions), for weights summing to 1 or to more; a dimension the
\* candidate has no data for contributes 0.
C18_ScoreClampedSum ==
  sc.state = "scored"
  => /\ sc.score >= 0 /\ sc.score <= Scale
     /\ \A d \in DOMAIN sc.score_breakdown : sc.score_breakdown[d] >= 0
     /\ LET total == sc.score_breakdown.genre_score
                     + sc.score_breakdown.director_score
                     + sc.score_breakdown.actor_score
                     + sc.score_breakdown.language_score
                     + sc.score_breakdown.keyword_score
        IN sc.score = IF total > Scale THEN Scale ELSE total
     /\ sc.movie_info.genres = <<>> => sc.score_breakdown.genre_score = 0
     /\ sc.movie_info.directors = <<>> => sc.score_breakdown.director_score = 0
     /\ sc.movie_info.cast = <<>> => sc.score_breakdown.actor_score = 0
     /\ sc.movie_info.language = "N/A" => sc.score_breakdown.language_score = 0
     /\ sc.movie_info.tmdb_keywords = <<>> => sc.score_breakdown.keyword_score = 0

\* A scored call whose contributions sum to more than 1.
C18_Witness ==
  /\ sc.state = "scored"
  /\ sc.score = Scale
  /\ sc.score_breakdown.genre_score + sc.score_breakdown.director_score
       + sc.score_breakdown.actor_score > Scale
  /\ sc.movie_info.tmdb_keywords = <<>>

\* The dimensions of the profile scoring reads.
Dimensions == {"genres", "directors", "actors", "languages", "keywords"}

\* C19: in every profile dimension with an observation, the normalized
\* weight scoring derives for a value lies in [0, 1] and the weight of a
\* most frequent value is 1.0, with normalize_counters on and off.
C19_NormalizedWeights ==
  sc.state = "scored"
  => \A dim \in Dimensions :
       \A v \in DOMAIN UserPrefs(sc.watched_data)[dim] :
         LET counter == UserPrefs(sc.watched_data)[dim]
             w == NormalizedScore(counter[v], MaxCount(counter),
                                  sc.normalize_counters)
         IN /\ w >= 0 /\ w <= Scale
            /\ counter[v] <= MaxCount(counter)
            /\ (\A u \in DOMAIN counter : counter[u] <= counter[v]) => w = Scale

\* A scored call on a profile whose genre dimension has two different
\* counts, which the candidate matches.
C19_Witness ==
  /\ sc.state = "scored"
  /\ sc.watched_data.genres = [action |-> 2, drama |-> 26]
  /\ sc.movie_info.genres = <<"action", "drama">>
  /\ sc.score_breakdown.genre_score > 0

\* ----------------------------------------- runs of get_recommendations

\* The largest configured limit_plex_results / limit_trakt_results.
MaxLimit == 2

\* The longest answer of Trakt's recommendations endpoint.
MaxFeed == 2

\* A movie of a Trakt answer (absent ids are 0, ratings in tenths).
TraktMovie(title, year, trakt_id, tmdb_id, imdb_id, rating, genres) ==
  [title |-> title, year |-> year,
   ids |-> [trakt |-> trakt_id, tmdb |-> tmdb_id, imdb |-> imdb_id],
   rating |-> rating, genres |-> genres]

\* The movies Trakt may answer with: a movie, the same movie with its
\* title in another letter case, a movie with ids of its own but the
\* first one's title and year, a drama, a movie whose TMDB id is that of
\* library movie 1, another movie with the drama's title and year, and a
\* movie with the title of library movie 1 but of another year.
TraktCatalog ==
  { TraktMovie("Heat", 1995, 1, 901, 801, 80, <<"Action">>),
    TraktMovie("HEAT", 1995, 1, 901, 801, 80, <<"Action">>),
    TraktMovie("Heat", 1995, 5, 0, 0, 62, <<"Action">>),
    TraktMovie("Ronin", 1998, 3, 903, 0, 70, <<"Drama">>),
    TraktMovie("Nikita", 1990, 4, 101, 0, 85, <<"Action">>),
    TraktMovie("Ronin", 1998, 6, 0, 0, 75, <<"Action">>),
    TraktMovie("Alien", 1979, 7, 0, 0, 85, <<"Action">>) }

\* The lists of at most n different catalog movies.
RECURSIVE FeedsUpTo(_)
FeedsUpTo(n) ==
  IF n = 0 THEN {<<>>}
  ELSE FeedsUpTo(n - 1)
       \cup UNION {{Append(f, m) : m \in TraktCatalog \ Range(f)} :
                     f \in {g \in FeedsUpTo(n - 1) : Len(g) = n - 1}}

\* What Trakt answers: nothing usable, or a recommendations list and
\* either a trending list or an error on the trending request.
TraktAnswers ==
  {TraktDown}
  \cup {[ok |-> TRUE, recommendations |-> r, trending_ok |-> TRUE, trending |-> t] :
          r \in FeedsUpTo(MaxFeed), t \in FeedsUpTo(1)}
  \cup {[ok |-> TRUE, recommendations |-> r, trending_ok |-> FALSE, trending |-> <<>>] :
          r \in FeedsUpTo(MaxFeed)}

\* The watched data a gathering over the watched movies S left.
ProfileOf(S) ==
  ProcessWatched(S, [k \in Ids |-> MovieInfo(PlexMovie(k, CatalogRating(k)))],
                 EmptyCounters, 1)

\* The library with the movies lib.
LibraryOf(lib) == [k \in lib |-> PlexMovie(k, CatalogRating(k))]

\* A constructed recommender whose library holds the movies lib, of which
\* W are watched, with the watched data of an earlier gathering over S
\* and the cached watched count n.
ReadyRcm(lib, W, S, n) ==
  [NoRcm EXCEPT
     !.state = "ready", !.library = lib, !.seen = W, !.current = n, !.loaded = n,
     !.self = [cached_watched_count |-> n, watched_data_counters |-> ProfileOf(S),
               watched_movie_ids |-> W, watched_data |-> ProfileOf(S)]]

\* The state when get_recommendations is called: a library-only run over
\* any library, watched set and profile, or a run with Trakt over the
\* empty or the full library, whose movie 1 is watched.
InitRecommend ==
  /\ disk = DiskMissing
  /\ obj = "ready"
  /\ last = NoCall
  /\ prev = NoPrev
  /\ mode = [source |-> "tautulli", single |-> FALSE]
  /\ wfile = WMissing
  /\ sc = NoScoring
  /\ recs = NoRecs
  /\ InitAux
  /\ \E lib \in SUBSET Ids :
       /\ plex = LibraryOf(lib)
       /\ cache = update_cache(EmptyCache, LibraryOf(lib), {}).cache
       /\ \/ /\ \E W \in SUBSET lib, S \in SUBSET Ids :
                  /\ history = W
                  /\ rcm \in {ReadyRcm(lib, W, S, n) : n \in {Cardinality(W), 1}}
             /\ trakt = TraktDown
             /\ config \in {[DefaultConfig EXCEPT
                               !.plex_only = TRUE,
                               !.limit_plex_results = l,
                               !.randomize_recommendations = r,
                               !.exclude_genres = x] :
                              l \in 0..MaxLimit, r \in BOOLEAN,
                              x \in {{}, {"drama"}}}
          \/ /\ lib \in {{}, Ids}
             /\ history = lib \cap {1}
             /\ rcm = ReadyRcm(lib, lib \cap {1}, lib \cap {1},
                               Cardinality(lib \cap {1}))
             /\ trakt \in TraktAnswers
             /\ config \in {[DefaultConfig EXCEPT
                               !.limit_trakt_results = l,
                               !.randomize_recommendations = r,
                               !.exclude_genres = x] :
                              l \in 0..MaxLimit, r \in BOOLEAN,
                              x \in {{}, {"drama"}}}

\* get_recommendations, the forced refresh of the watched data: the
\* outcomes [self, wf] (gathering and writing may fail).
RefreshOutcomes(self, wf, m, hist, lib, movies) ==
  IF self.cached_watched_count > 0 /\ self.watched_movie_ids = {}
  THEN { With(GatherWatched(self, m, hist, lib, movies, gatherOk),
              LAMBDA g :
                With([g.self EXCEPT !.watched_data = g.data,
                                    !.watched_data_counters = g.data],
                     LAMBDA s1 :
                       [self |-> s1, wf |-> _save_watched_cache(s1, wf, written)])) :
           gatherOk \in BOOLEAN, written \in BOOLEAN }
  ELSE {[self |-> self, wf |-> wf]}

\* The library recommendations drawn from the sorted scored movies.
PlexChoices(scored_movies, cfg) ==
  IF cfg.randomize_recommendations
  THEN { PickFrom(TopPool(scored_movies, cfg.limit_plex_results), pick) :
           pick \in Samples(Len(TopPool(scored_movies, cfg.limit_plex_results)),
                            Min(cfg.limit_plex_results,
                                Len(TopPool(scored_movies, cfg.limit_plex_results)))) }
  ELSE {Take(scored_movies, cfg.limit_plex_results)}

\* The outcomes of get_trakt_recommendations: [processed, final], the
\* sorted all_processed_movies and the list returned.
TraktChoices(service, all_movies, library_movie_titles, cfg) ==
  IF cfg.plex_only THEN {[processed |-> <<>>, final |-> <<>>]}
  ELSE UNION {
         { [processed |-> sorted, final |-> TraktFinal(sorted, cfg, shuffle)] :
             shuffle \in IF cfg.randomize_recommendations
                         THEN Samples(Len(sorted), Len(sorted))
                         ELSE {<<>>} } :
         sorted \in { TraktSorted(service, jitters, all_movies,
                                  library_movie_titles, cfg) :
                        jitters \in [1..(Len(service.recommendations)
                                         + Len(service.trending)) -> {0, 4}] } }

\* PlexMovieRecommender.get_recommendations.  The items of the lists in
\* recs carry, with the dict returned (movie_info / movie), the rating key
\* or Trakt ids and the sort key k.
GetRecommendations ==
  /\ rcm.state = "ready"
  /\ \E pre \in RefreshOutcomes(rcm.self, wfile, mode, history, plex, cache.movies) :
       \E scored_movies \in
            {SortDesc(ScoredMovies(
               UnwatchedFrom(cache.movies, pre.self.watched_movie_ids,
                             config.exclude_genres, 1),
               cache.movies, pre.self.watched_data, config))} :
         \E plex_recs \in PlexChoices(scored_movies, config) :
           \E t \in TraktChoices(trakt, cache.movies,
                                 _get_library_movie_titles(plex), config) :
             /\ rcm' = [rcm EXCEPT !.self = pre.self]
             /\ wfile' = pre.wf
             /\ cache' = [cache EXCEPT
                            !.movies = CacheAfterScoring(@, scored_movies)]
             /\ recs' = [state |-> "done", program |-> "MRFP",
                         watched_movie_ids |-> pre.self.watched_movie_ids,
                         scored_movies |-> scored_movies,
                         plex_recommendations |-> plex_recs,
                         processed_movies |-> t.processed,
                         trakt_recommendations |-> t.final]
  /\ UNCHANGED <<plex, disk, obj, last, prev, mode, history, sc, config, trakt>>
  /\ UNCHANGED auxVars

\* ---- RFP.py, the earlier script

\* RFP.py, _get_watched_movies_data: the genres, directors and actors of
\* the watched library movies.
RFP_get_watched_movies_data(lib, watched) ==
  [genres    |-> UNION {Range(MapLower(lib[k].genres)) : k \in watched \cap DOMAIN lib},
   directors |-> UNION {Range(lib[k].directors) : k \in watched \cap DOMAIN lib},
   actors    |-> UNION {Range(lib[k].roles) : k \in watched \cap DOMAIN lib}]

\* RFP.py, calculate_movie_score (thousandths).
RFP_calculate_movie_score(movie, watched_data) ==
  (IF watched_data.genres # {} /\ movie.genres # <<>>
   THEN (((Cardinality(Range(MapLower(movie.genres)) \cap watched_data.genres) * Scale)
          \div Cardinality(Range(MapLower(movie.genres)))) * 50) \div 100
   ELSE 0)
  + (IF watched_data.directors # {}
        /\ Range(movie.directors) \cap watched_data.directors # {}
     THEN (Scale * 30) \div 100 ELSE 0)
  + (IF watched_data.actors # {}
     THEN (Min(Scale, (Cardinality(Range(movie.roles) \cap watched_data.actors) * Scale)
                      \div 3) * 20) \div 100
     ELSE 0)

\* RFP.py, get_movie_details
RFP_get_movie_details(movie, watched_data) ==
  [title |-> movie.title, year |-> movie.year,
   genres |-> MapLower(movie.genres), summary |-> "",
   ratings |-> [imdb_rating |-> movie.rating, audience_rating |-> movie.audienceRating],
   similarity_score |-> RFP_calculate_movie_score(movie, watched_data)]

\* RFP.py, get_unwatched_library_movies: the details of the unwatched
\* movies without an excluded genre, from rating key k on; an item is
\* [id, movie_info, k] with k the first sort key of get_recommendations,
\* (imdb_rating, similarity_score).
RECURSIVE RFP_get_unwatched_library_movies(_, _, _, _)
RFP_get_unwatched_library_movies(lib, watched, exclude_genres, k) ==
  IF k > MaxMovies THEN <<>>
  ELSE (IF k \in DOMAIN lib /\ k \notin watched
           /\ ~HasExcludedGenre(MapLower(lib[k].genres), exclude_genres)
        THEN With(RFP_get_movie_details(lib[k],
                                        RFP_get_watched_movies_data(lib, watched)),
                  LAMBDA d : <<[id |-> k, movie_info |-> d,
                                k |-> d.ratings.imdb_rating * 10 * Scale
                                      + d.similarity_score]>>)
        ELSE <<>>)
       \o RFP_get_unwatched_library_movies(lib, watched, exclude_genres, k + 1)

\* int(n * 0.5) and int(n * 0.3)
Half(n) == n \div 2

ThreeTenths(n) == (3 * n) \div 10

Max(a, b) == IF a >= b THEN a ELSE b

\* The items with the similarity score as their sort key.
BySimilarity(items) ==
  [i \in 1..Len(items) |-> [items[i] EXCEPT !.k = items[i].movie_info.similarity_score]]

\* RFP.py, get_recommendations: the pool the library recommendations are
\* sampled from (top half by rating, then top 30% of those by similarity,
\* each at least limit_plex_results).
RFP_final_pool(unwatched, limit) ==
  With(SortDesc(BySimilarity(
         Take(SortDesc(unwatched), Max(Half(Len(unwatched)), limit)))),
       LAMBDA top_movies : Take(top_movies, Max(ThreeTenths(Len(top_movies)), limit)))

\* RFP.py, get_trakt_recommendations on the shuffled answer: the movies
\* not in the library by (lowercased title, year) and without an excluded
\* genre, with the imdb_rating as sort key.
RECURSIVE RFP_get_trakt_recommendations(_, _, _, _)
RFP_get_trakt_recommendations(movies, i, library_movies, exclude_genres) ==
  IF i > Len(movies) THEN <<>>
  ELSE (IF <<Lower(movies[i].title), movies[i].year>> \in library_movies
           \/ HasExcludedGenre(MapLower(movies[i].genres), exclude_genres)
        THEN <<>>
        ELSE <<[movie |-> [title |-> movies[i].title, year |-> movies[i].year,
                           ratings |-> [imdb_rating |-> movies[i].rating, votes |-> 0],
                           summary |-> "", genres |-> MapLower(movies[i].genres)],
                tmdb_id |-> movies[i].ids.tmdb, trakt_id |-> movies[i].ids.trakt,
                k |-> movies[i].rating]>>)
       \o RFP_get_trakt_recommendations(movies, i + 1, library_movies, exclude_genres)

\* The samples of min(limit, len(pool)) items of a pool.
SampleChoices(pool, limit) ==
  { PickFrom(pool, pick) : pick \in Samples(Len(pool), Min(limit, Len(pool))) }

\* RFP.py, the Trakt half of get_recommendations: [processed, final], the
\* sorted list of get_trakt_recommendations and the sample of its top half.
RFP_trakt_choices(service, library_movies, cfg) ==
  IF cfg.plex_only \/ ~service.ok THEN {[processed |-> <<>>, final |-> <<>>]}
  ELSE UNION {
         { [processed |-> sorted, final |-> f] :
             f \in SampleChoices(Take(sorted, Max(Half(Len(sorted)),
                                                  cfg.limit_trakt_results)),
                                 cfg.limit_trakt_results) } :
         sorted \in { SortDesc(RFP_get_trakt_recommendations(
                                 PickFrom(service.recommendations, shuffle), 1,
                                 library_movies, cfg.exclude_genres)) :
                        shuffle \in Samples(Len(service.recommendations),
                                            Len(service.recommendations)) } }

\* RFP.py, PlexMovieRecommender.get_recommendations on the live library
\* and its watched movies.
RFPGetRecommendations ==
  /\ \E unwatched \in {RFP_get_unwatched_library_movies(
                          plex, history, config.exclude_genres, 1)} :
       \E plex_recs \in SampleChoices(
                          RFP_final_pool(unwatched, config.limit_plex_results),
                          config.limit_plex_results) :
         \E t \in RFP_trakt_choices(trakt, _get_library_movie_titles(plex), config) :
           recs' = [state |-> "done", program |-> "RFP",
                    watched_movie_ids |-> history \cap DOMAIN plex,
                    scored_movies |-> unwatched,
                    plex_recommendations |-> plex_recs,
                    processed_movies |-> t.processed,
                    trakt_recommendations |-> t.final]
  /\ UNCHANGED <<plex, disk, obj, cache, last, prev, mode, history, wfile, rcm,
                 sc, config, trakt>>
  /\ UNCHANGED auxVars

NextRecommend ==
  \/ GetRecommendations
  \/ RFPGetRecommendations

SpecRecommend == InitRecommend /\ [][NextRecommend]_vars

\* ------------------------------------------- claims: recommendations

Done(program) == recs.state = "done" /\ recs.program = program

\* The rating of a library item.
ItemRating(item) ==
  IF "audience_rating" \in DOMAIN item.movie_info.ratings
  THEN item.movie_info.ratings.audience_rating ELSE 0

\* The rating keys of a list of library items.
ItemIds(items) == [i \in 1..Len(items) |-> items[i].id]

\* The items in the order of their rating keys (the cache's order).
RECURSIVE InKeyOrder(_, _)
InKeyOrder(items, k) ==
  IF k > MaxMovies THEN <<>>
  ELSE SelectSeq(items, LAMBDA x : x.id = k) \o InKeyOrder(items, k + 1)

\* The two-stage order of the claim: by rating, the top max(50%, limit);
\* those by similarity, the top max(30%, limit).
TwoStageOrder(items, limit) ==
  LET by_rating == SortDesc([i \in 1..Len(items) |->
                               [items[i] EXCEPT !.k = ItemRating(items[i])]])
      top       == Take(by_rating, Max(Half(Len(items)), limit))
      by_score  == SortDesc(BySimilarity(top))
  IN Take(by_score, Max(ThreeTenths(Len(top)), limit))

\* C12: with randomize off, the library recommendations are the first
\* limit candidates of the two-stage order (rating, then similarity).
C12_TwoStageTopLimit ==
  (Done("MRFP") /\ ~config.randomize_recommendations)
  => ItemIds(recs.plex_recommendations)
       = ItemIds(Take(TwoStageOrder(InKeyOrder(recs.scored_movies, 1),
                                    config.limit_plex_results),
                      config.limit_plex_results))

\* Two Trakt items are duplicates: a shared populated id, or the same
\* lowercased title and year.
SameMovie(a, b) ==
  \/ a.trakt_id # 0 /\ a.trakt_id = b.trakt_id
  \/ a.tmdb_id # 0 /\ a.tmdb_id = b.tmdb_id
  \/ a.movie.imdb_id # 0 /\ a.movie.imdb_id = b.movie.imdb_id
  \/ Lower(a.movie.title) = Lower(b.movie.title) /\ a.movie.year = b.movie.year

\* A movie of a Trakt answer is eligible on its own: titled, not in the
\* library and without an excluded genre.
Eligible(m) ==
  /\ m.title # ""
  /\ ~_is_movie_in_library(m.title, m.year, m.ids.tmdb, m.ids.imdb,
                           cache.movies, _get_library_movie_titles(plex))
  /\ ~HasExcludedGenre(MapLower(m.genres), config.exclude_genres)

\* Two movies of a Trakt answer share an id or the title and year.
SameEntry(m, n) ==
  \/ m.ids.trakt # 0 /\ m.ids.trakt = n.ids.trakt
  \/ m.ids.tmdb # 0 /\ m.ids.tmdb = n.ids.tmdb
  \/ m.ids.imdb # 0 /\ m.ids.imdb = n.ids.imdb
  \/ Lower(m.title) = Lower(n.title) /\ m.year = n.year

\* The movies answered, recommendations first.
Answered == trakt.recommendations \o trakt.trending

\* C13: no two candidates get_trakt_recommendations returns, or keeps
\* after either pass, share a populated trakt, tmdb or imdb id or the
\* lowercased title and year; of two eligible answered movies with the
\* same catalog id and titles differing in letter case only, exactly the
\* first one is kept.
C13_NoDuplicates ==
  Done("MRFP")
  => /\ \A i, j \in 1..Len(recs.trakt_recommendations) :
          i # j => ~SameMovie(recs.trakt_recommendations[i],
                              recs.trakt_recommendations[j])
     /\ \A i, j \in 1..Len(recs.processed_movies) :
          i # j => ~SameMovie(recs.processed_movies[i], recs.processed_movies[j])
     /\ (trakt.ok /\ ~config.plex_only)
        => \A i \in 1..Len(trakt.recommendations), j \in 1..Len(Answered) :
             ( /\ i < j
               /\ Answered[i].ids.trakt # 0
               /\ Answered[i].ids.trakt = Answered[j].ids.trakt
               /\ Answered[i].title # Answered[j].title
               /\ Lower(Answered[i].title) = Lower(Answered[j].title)
               /\ Eligible(Answered[i]) /\ Eligible(Answered[j])
               /\ \A h \in 1..(i - 1) : ~SameEntry(Answered[h], Answered[i]) )
             => /\ Cardinality({h \in 1..Len(recs.processed_movies) :
                                  recs.processed_movies[h].trakt_id
                                    = Answered[i].ids.trakt}) = 1
                /\ \E h \in 1..Len(recs.processed_movies) :
                     /\ recs.processed_movies[h].trakt_id = Answered[i].ids.trakt
                     /\ recs.processed_movies[h].movie.title = Answered[i].title

\* Trakt answered "Heat" and then "HEAT" with the same ids; one is returned.
C13_Witness ==
  /\ Done("MRFP")
  /\ Len(trakt.recommendations) = 2
  /\ trakt.recommendations[1].title = "Heat"
  /\ trakt.recommendations[1].ids.trakt = 1
  /\ trakt.recommendations[2].title = "HEAT"
  /\ Len(recs.processed_movies) = 1
  /\ Len(recs.trakt_recommendations) = 1
  /\ recs.trakt_recommendations[1].movie.title = "Heat"

\* C14: no library recommendation is a watched movie or carries an
\* excluded genre; no Trakt recommendation carries an excluded genre or
\* has the TMDB or IMDb id of a library record.
C14_EligibleOnly ==
  Done("MRFP")
  => /\ \A i \in 1..Len(recs.plex_recommendations) :
          /\ recs.plex_recommendations[i].id \notin recs.watched_movie_ids
          /\ \A g \in Range(recs.plex_recommendations[i].movie_info.genres) :
               g \notin config.exclude_genres
     /\ \A i \in 1..Len(recs.trakt_recommendations) :
          /\ \A g \in Range(recs.trakt_recommendations[i].movie.genres) :
               g \notin config.exclude_genres
          /\ \A k \in DOMAIN cache.movies :
               /\ recs.trakt_recommendations[i].tmdb_id # 0
                    => cache.movies[k].tmdb_id # recs.trakt_recommendations[i].tmdb_id
               /\ recs.trakt_recommendations[i].movie.imdb_id # 0
                    => cache.movies[k].imdb_id
                         # recs.trakt_recommendations[i].movie.imdb_id

\* A run that excludes dramas, with a watched movie, a library
\* recommendation, and a Trakt answer with a drama and with a movie of
\* the library, returning a Trakt recommendation.
C14_Witness ==
  /\ Done("MRFP")
  /\ config.exclude_genres = {"drama"}
  /\ recs.watched_movie_ids # {}
  /\ recs.plex_recommendations # <<>>
  /\ \E i \in 1..Len(trakt.recommendations) : trakt.recommendations[i].ids.tmdb = 101
  /\ \E i \in 1..Len(trakt.recommendations) :
       trakt.recommendations[i].genres = <<"Drama">>
  /\ recs.trakt_recommendations # <<>>

\* The items of a list, their sort keys put aside.
Unkeyed(items) == {[x EXCEPT !.k = 0] : x \in Range(items)}

\* C15: both lists hold at most their limit, no more items than there are
\* eligible candidates, and no candidate twice, in MRFP.py and RFP.py and
\* with randomize on and off.
C15_AtMostLimit ==
  recs.state = "done"
  => /\ Len(recs.plex_recommendations) <= config.limit_plex_results
     /\ Len(recs.plex_recommendations) <= Len(recs.scored_movies)
     /\ \A i, j \in 1..Len(recs.plex_recommendations) :
          i # j => recs.plex_recommendations[i].id # recs.plex_recommendations[j].id
     /\ Range(ItemIds(recs.plex_recommendations))
          \subseteq Range(ItemIds(recs.scored_movies))
     /\ Len(recs.trakt_recommendations) <= config.limit_trakt_results
     /\ Len(recs.trakt_recommendations) <= Len(recs.processed_movies)
     /\ \A i, j \in 1..Len(recs.trakt_recommendations) :
          i # j => recs.trakt_recommendations[i] # recs.trakt_recommendations[j]
     /\ Unkeyed(recs.trakt_recommendations) \subseteq Unkeyed(recs.processed_movies)

\* A randomized run with more eligible Trakt candidates than the limit.
C15_Witness ==
  /\ Done("MRFP")
  /\ config.randomize_recommendations
  /\ config.limit_trakt_results = 1
  /\ Len(recs.processed_movies) = 2
  /\ Len(recs.trakt_recommendations) = 1
  /\ Len(recs.plex_recommendations) = 1

\* C16: the lists returned are in non-increasing order of score (the
\* similarity for the library list, the sort key for the Trakt list),
\* with randomize on too.
C16_OrderedByScore ==
  Done("MRFP")
  => /\ \A i, j \in 1..Len(recs.plex_recommendations) :
          i < j => recs.plex_recommendations[i].k >= recs.plex_recommendations[j].k
     /\ \A i, j \in 1..Len(recs.trakt_recommendations) :
          i < j => recs.trakt_recommendations[i].k >= recs.trakt_recommendations[j].k

\* C17: with randomize on, every Trakt recommendation is among the top
\* max(10% of the eligible candidates, limit) by the sort key.
C17_FromTopCut ==
  (Done("MRFP") /\ config.randomize_recommendations)
  => Range(recs.trakt_recommendations)
       \subseteq Range(Take(recs.processed_movies,
                            Max(Len(recs.processed_movies) \div 10,
                                config.limit_trakt_results)))

\* The movie m of a Trakt answer was kept by get_trakt_recommendations.
Kept(m) ==
  \E h \in 1..Len(recs.processed_movies) :
    /\ recs.processed_movies[h].trakt_id = m.ids.trakt
    /\ recs.processed_movies[h].movie.title = m.title

\* C24: an eligible recommended movie whose earlier duplicates (shared
\* id, or title and year) were all dropped for an excluded genre is kept.
C24_ExcludedNeverShadows ==
  (Done("MRFP") /\ trakt.ok /\ ~config.plex_only)
  => \A j \in 1..Len(trakt.recommendations) :
       ( /\ Eligible(trakt.recommendations[j])
         /\ \A h \in 1..(j - 1) :
              SameEntry(trakt.recommendations[h], trakt.recommendations[j])
              => HasExcludedGenre(MapLower(trakt.recommendations[h].genres),
                                  config.exclude_genres) )
       => Kept(trakt.recommendations[j])

\* C27: get_recommendations leaves the records of the metadata cache as
\* they were.
C27_CacheUnchanged ==
  [][(recs.state = "none" /\ recs'.state = "done" /\ recs'.program = "MRFP")
     => cache'.movies = cache.movies]_vars

\* The movie m has the TMDB or IMDb id of a library record.
IdInLibrary(m) ==
  \E k \in DOMAIN cache.movies :
    \/ m.ids.tmdb # 0 /\ DictGet(cache.movies[k], "tmdb_id", 0) = m.ids.tmdb
    \/ m.ids.imdb # 0 /\ DictGet(cache.movies[k], "imdb_id", 0) = m.ids.imdb

\* C28: a recommended movie without an id match, without an excluded
\* genre and without an earlier duplicate is dropped as a library movie
\* only when a library movie has its lowercased title and its year.
C28_TitleMatchNeedsYear ==
  (Done("MRFP") /\ trakt.ok /\ ~config.plex_only)
  => \A j \in 1..Len(trakt.recommendations) :
       ( /\ trakt.recommendations[j].title # ""
         /\ ~IdInLibrary(trakt.recommendations[j])
         /\ ~HasExcludedGenre(MapLower(trakt.recommendations[j].genres),
                              config.exclude_genres)
         /\ \A h \in 1..(j - 1) :
              ~SameEntry(trakt.recommendations[h], trakt.recommendations[j])
         /\ ~Kept(trakt.recommendations[j]) )
       => \E k \in DOMAIN plex :
            /\ Lower(plex[k].title) = Lower(trakt.recommendations[j].title)
            /\ plex[k].year = trakt.recommendations[j].year

\* C26: a watched movie whose language is "N/A" adds nothing to the
\* languages of the taste profile: 'n/a' is no key of a gathered profile.
C26_NoSentinelLanguage ==
  (rcm.state = "ready" /\ rcm.up /\ rcm.gathered)
  => "n/a" \notin DOMAIN DictGet(rcm.self.watched_data, "languages", EmptyDict)

\* C25: a run whose _get_watched_count fails (and returns 0) leaves the
\* watched cache file, and the cached counters, watched ids and watched
\* count it loaded from it, as they were.
C25_FailedCountKeepsCache ==
  [][( /\ rcm' # rcm \/ wfile' # wfile
       /\ rcm'.state = "ready" /\ ~rcm'.counted
       /\ wfile.kind = "json"
       /\ DictGet(wfile.doc, "watched_count", 0) > 0
       /\ Range(DictGet(wfile.doc, "watched_movie_ids", <<>>)) # {}
       /\ Range(DictGet(wfile.doc, "watched_movie_ids", <<>>)) \subseteq DOMAIN plex )
     => /\ wfile' = wfile
        /\ rcm'.self.cached_watched_count = wfile.doc.watched_count
        /\ rcm'.self.watched_data_counters = wfile.doc.watched_data_counters
        /\ rcm'.self.watched_movie_ids = Range(wfile.doc.watched_movie_ids)]_vars

\* ------------------------------------------- cache paths of a context

\* Strings are held as sequences of one-character strings.
WordChars == {"a", "b", "c", "d", "e", "h", "i", "l", "p", "t", "u", "w", "x", "_"}

\* re.sub(r'\W+', '', s): the characters [a-zA-Z0-9_] of s.
safe_ctx(user_ctx) == SelectSeq(user_ctx, LAMBDA c : c \in WordChars)

\* '_'.join(names)
RECURSIVE JoinUnderscore(_)
JoinUnderscore(names) ==
  IF names = <<>> THEN <<>>
  ELSE IF Len(names) = 1 THEN names[1]
  ELSE names[1] \o <<"_">> \o JoinUnderscore(Tail(names))

\* user_ctx of __init__ for the context c: the history source (Tautulli
\* users configured or not), the single user of the run (<<>> for none)
\* and the configured list of users of the source.
user_ctx(c) ==
  IF c.single_user # <<>>
  THEN (IF c.source = "tautulli" THEN <<"t", "a", "u", "t", "u", "l", "l", "i", "_">>
        ELSE <<"p", "l", "e", "x", "_">>) \o c.single_user
  ELSE IF c.source = "tautulli"
  THEN <<"t", "a", "u", "t", "u", "l", "l", "i", "_">> \o JoinUnderscore(c.users)
  ELSE <<"p", "l", "e", "x", "_">> \o JoinUnderscore(c.users)

\* self.watched_cache_path, within cache_dir
watched_cache_path(c) ==
  <<"w", "a", "t", "c", "h", "e", "d", "_", "c", "a", "c", "h", "e", "_">>
  \o safe_ctx(user_ctx(c)) \o <<".", "j", "s", "o", "n">>

\* The user names of the runs: a, b, ab, a_b, a-b.
UserNames ==
  { <<"a">>, <<"b">>, <<"a", "b">>, <<"a", "_", "b">>, <<"a", "-", "b">> }

\* The longest configured list of users.
MaxUsers == 2

\* The lists of at most n different user names.
RECURSIVE UserLists(_)
UserLists(n) ==
  IF n = 0 THEN {<<>>}
  ELSE UserLists(n - 1)
       \cup UNION {{Append(f, u) : u \in UserNames \ Range(f)} :
                     f \in {g \in UserLists(n - 1) : Len(g) = n - 1}}

\* The user contexts of a run: a single user, or a list of users, of
\* either source.
Contexts ==
  [source : {"plex", "tautulli"}, single_user : UserNames, users : {<<>>}]
  \cup [source : {"plex", "tautulli"}, single_user : {<<>>},
        users : UserLists(MaxUsers) \ {<<>>}]

InitPaths ==
  /\ plex = EmptyDict
  /\ disk = DiskMissing
  /\ obj = "none"
  /\ cache = EmptyDict
  /\ last = NoCall
  /\ prev = NoPrev
  /\ mode = [source |-> "tautulli", single |-> FALSE]
  /\ InitRun
  /\ sc = NoScoring
  /\ config = DefaultConfig
  /\ trakt = TraktDown
  /\ recs = NoRecs
  /\ req = Idle
  /\ tsync = Idle
  /\ lookup = Idle
  /\ paths \in [state : {"args"}, a : Contexts, b : Contexts]

\* Two runs of __init__, over the contexts a and b, set their
\* watched_cache_path.
SetCachePaths ==
  /\ paths.state = "args"
  /\ paths' = [state |-> "set", a |-> paths.a, b |-> paths.b,
               path_a |-> watched_cache_path(paths.a),
               path_b |-> watched_cache_path(paths.b)]
  /\ UNCHANGED cacheVars
  /\ UNCHANGED runVars
  /\ UNCHANGED <<sc, config, trakt, recs, req, tsync, lookup>>

NextPaths == SetCachePaths

SpecPaths == InitPaths /\ [][NextPaths]_vars

\* Two contexts differ in the source kind, in the single user, or in the
\* list of users.
DifferentContexts(a, b) ==
  \/ a.source # b.source
  \/ a.single_user # <<>> /\ b.single_user # <<>> /\ a.single_user # b.single_user
  \/ a.single_user = <<>> /\ b.single_user = <<>> /\ a.users # b.users

\* C21: two runs over different user contexts use different watched
\* cache paths.
C21_DistinctContextsDistinctPaths ==
  (paths.state = "set" /\ DifferentContexts(paths.a, paths.b))
  => paths.path_a # paths.path_b

\* ------------------------------------- TMDB lookups of update_cache

\* max_retries of both lookups
max_retries == 3

\* What a request to TMDB does: a status code (200 with or without a
\* usable body), a connection error or timeout, or another exception.
Responses ==
  {"200", "200 empty", "429", "500", "ConnectionError", "Timeout", "Exception"}

\* sleep_time of a 429 response, in seconds
sleep_time(attempt) == 2 * (attempt + 1)

\* A 429 response retried without using up an attempt.
MutNextAttemptFree(attempt, resp) ==
  IF resp = "429" THEN attempt ELSE attempt + 1

\* for attempt in range(max_retries): the attempt after a `continue` or
\* the end of the loop body
NextAttempt(attempt, resp) == attempt + 1

\* One iteration of a lookup's loop on the response resp: the seconds
\* slept, whether the loop is left by `break`, whether a result was taken.
Attempt(attempt, resp) ==
  CASE resp = "429"  -> [slept |-> sleep_time(attempt), break |-> FALSE, found |-> FALSE]
    [] resp = "200"  -> [slept |-> 0, break |-> TRUE, found |-> TRUE]
    [] resp = "200 empty" -> [slept |-> 0, break |-> TRUE, found |-> FALSE]
    [] resp \in {"ConnectionError", "Timeout"}
                     -> [slept |-> 1, break |-> FALSE, found |-> FALSE]
    [] resp = "Exception" -> [slept |-> 0, break |-> TRUE, found |-> FALSE]
    [] OTHER         -> [slept |-> 0, break |-> FALSE, found |-> FALSE]

\* update_cache starts on new movie m, whose guids give the TMDB id guid
\* (0 for none): the id search runs when there is no id, the keyword
\* fetch when there is one.  requests counts the requests of the lookup
\* under way, waits lists the seconds slept before each of its retries,
\* slept the seconds slept since its last request, gave_up the lookups
\* that used up their attempts.
StartMovie(m, guid, stored, gave_up) ==
  [state |-> IF guid = 0 THEN "search" ELSE "keywords",
   movie |-> m, attempt |-> 0, requests |-> 0, waits |-> <<>>, slept |-> 0,
   tmdb_id |-> guid, tmdb_keywords |-> <<>>,
   stored |-> stored, gave_up |-> gave_up]

\* The lookup r after one more iteration of its loop on the response
\* resp; after_loop is the state the movie is in when the loop is over.
LookupStep(r, resp, after_loop) ==
  LET a == Attempt(r.attempt, resp)
      n == NextAttempt(r.attempt, resp)
      over == a.break \/ n >= max_retries
  IN [r EXCEPT
        !.requests = @ + 1,
        !.waits = IF r.requests > 0 THEN Append(@, r.slept) ELSE @,
        !.slept = a.slept,
        !.attempt = IF over THEN 0 ELSE n,
        !.state = IF over THEN after_loop ELSE @,
        !.gave_up = IF ~a.break /\ n >= max_retries
                    THEN @ \cup {<<r.movie, r.state>>} ELSE @]

InitRequests ==
  /\ plex = EmptyDict
  /\ disk = DiskMissing
  /\ obj = "none"
  /\ cache = EmptyDict
  /\ last = NoCall
  /\ prev = NoPrev
  /\ mode = [source |-> "tautulli", single |-> FALSE]
  /\ InitRun
  /\ sc = NoScoring
  /\ config = DefaultConfig
  /\ trakt = TraktDown
  /\ recs = NoRecs
  /\ paths = Idle
  /\ tsync = Idle
  /\ lookup = Idle
  /\ \E guid \in {0, 101} : req = StartMovie(1, guid, {}, {})

\* One request of the TMDB id search.
SearchRequest ==
  /\ req.state = "search"
  /\ \E resp \in Responses :
       \E r \in {LookupStep(req, resp, "searched")} :
         req' = IF r.state = "searched"
                THEN (IF resp = "200"
                      THEN [r EXCEPT !.state = "keywords", !.tmdb_id = 900 + r.movie,
                                     !.requests = 0, !.waits = <<>>, !.slept = 0]
                      ELSE [r EXCEPT !.state = "store"])
                ELSE r
  /\ UNCHANGED cacheVars
  /\ UNCHANGED runVars
  /\ UNCHANGED <<sc, config, trakt, recs, paths, tsync, lookup>>

\* One request of the keyword fetch.
KeywordRequest ==
  /\ req.state = "keywords"
  /\ \E resp \in Responses :
       \E r \in {LookupStep(req, resp, "store")} :
         req' = IF r.state = "store" /\ resp = "200"
                THEN [r EXCEPT !.tmdb_keywords = <<"heist">>]
                ELSE r
  /\ UNCHANGED cacheVars
  /\ UNCHANGED runVars
  /\ UNCHANGED <<sc, config, trakt, recs, paths, tsync, lookup>>

\* The record of the movie is stored and the loop goes on to the next new
\* movie, or ends.
StoreMovie ==
  /\ req.state = "store"
  /\ IF req.movie < MaxMovies
     THEN \E guid \in {0, 101} :
            req' = StartMovie(req.movie + 1, guid, req.stored \cup {req.movie},
                              req.gave_up)
     ELSE req' = [req EXCEPT !.state = "finished",
                             !.stored = @ \cup {req.movie}]
  /\ UNCHANGED cacheVars
  /\ UNCHANGED runVars
  /\ UNCHANGED <<sc, config, trakt, recs, paths, tsync, lookup>>

NextRequests ==
  \/ SearchRequest
  \/ KeywordRequest
  \/ StoreMovie

SpecRequests == InitRequests /\ [][NextRequests]_vars

\* C22: a lookup issues at most 3 requests whatever the responses; a
\* lookup that used up its attempts does not end the refresh: its movie
\* is stored and the loop goes on to the next movie.
C22_AtMostThreeRequests ==
  req.state # "none"
  => /\ req.requests <= 3
     /\ req.state \in {"search", "keywords", "store", "finished"}
     /\ \A g \in req.gave_up : g[1] \in req.stored \/ g[1] = req.movie
     /\ req.stored = 1..(req.movie - 1)
                       \cup (IF req.state = "finished" THEN {req.movie} ELSE {})
     /\ req.state = "finished" => req.stored = 1..MaxMovies

\* The id search of movie 1 used up its three requests, movie 1 was
\* stored and a lookup of movie 2 is under way.
C22_Witness ==
  /\ req.state \in {"search", "keywords"}
  /\ <<1, "search">> \in req.gave_up
  /\ 1 \in req.stored
  /\ req.movie = 2
  /\ req.requests >= 1

\* C23: within one lookup, the wait before each retry is longer than the
\* wait before the retry preceding it.
C23_IncreasingBackoff ==
  req.state # "none"
  => \A i, j \in 1..Len(req.waits) : i < j => req.waits[i] < req.waits[j]

\* ------------------------------------ _sync_watched_movies_to_trakt

\* Python values of the sync cache: strings and integers.
PyStr(s) == [type |-> "str", value |-> s]

PyInt(n) == [type |-> "int", value |-> n]

\* x in S, for Python values
PyIn(x, S) == \E y \in S : y.type = x.type /\ y.value = x.value

\* The strings made of digits only, with their value.
DigitStrings == [s \in {"201", "202"} |-> IF s = "201" THEN 201 ELSE 202]

\* str(id).isdigit()
str_isdigit(id) ==
  IF id.type = "int" THEN id.value >= 0 ELSE id.value \in DOMAIN DigitStrings

\* int(id) of a value whose str is made of digits
int_of(id) == IF id.type = "int" THEN id ELSE PyInt(DigitStrings[id.value])

\* The IMDb id of the guids of library movie k
ImdbIdOf(k) == PyStr(IF k = 1 THEN "tt201" ELSE IF k = 2 THEN "tt202" ELSE "tt203")

\* trakt_sync_cache.json: absent, or a document with synced_movie_ids
\* (held as the set of the list's members).
SyncFileMissing == [kind |-> "missing", synced_movie_ids |-> {}]

SyncFile(ids) == [kind |-> "json", synced_movie_ids |-> ids]

\* previously_synced_ids as the sync loads it from the file
previously_synced_ids(file) ==
  IF file.kind = "missing" THEN {}
  ELSE {int_of(id) : id \in {x \in file.synced_movie_ids : str_isdigit(x)}}

\* new_movies: the watched movies whose imdb_id is not in
\* previously_synced_ids
new_movies(watched_movies, previously_synced) ==
  {id \in watched_movies : ~PyIn(id, previously_synced)}

\* No run of the sync yet.
NoSync == [ran |-> FALSE, watched |-> {}, posted |-> {}, full |-> FALSE,
           recorded |-> {}]

\* One run of _sync_watched_movies_to_trakt over the watched rating keys
\* `watched`, of which `resolved` are fetched from Plex with an IMDb id;
\* accepted is whether Trakt answers 201 with added movies, written
\* whether the sync cache can be written.  [file, run]: the sync cache
\* after the run, and what the run posted and recorded.
_sync_watched_movies_to_trakt(file, watched, resolved, accepted, written) ==
  LET previously == previously_synced_ids(file)
      watched_movies == {ImdbIdOf(k) : k \in resolved}
      new == new_movies(watched_movies, previously)
      newly_synced == IF accepted THEN new ELSE {}
      all_synced == previously \cup newly_synced
      saved == newly_synced # {} /\ written
  IN [file |-> IF saved THEN SyncFile(all_synced) ELSE file,
      run  |-> [ran |-> TRUE, watched |-> watched, posted |-> new,
                full |-> resolved = watched /\ watched # {} /\ saved,
                recorded |-> IF saved THEN all_synced ELSE {}]]

InitSync ==
  /\ plex = EmptyDict
  /\ disk = DiskMissing
  /\ obj = "none"
  /\ cache = EmptyDict
  /\ last = NoCall
  /\ prev = NoPrev
  /\ mode = [source |-> "tautulli", single |-> FALSE]
  /\ InitRun
  /\ sc = NoScoring
  /\ config = DefaultConfig
  /\ trakt = TraktDown
  /\ recs = NoRecs
  /\ paths = Idle
  /\ req = Idle
  /\ lookup = Idle
  /\ tsync = [state |-> "ready", watched |-> {}, file |-> SyncFileMissing,
              last |-> NoSync, prev |-> NoSync]

\* A user watches one more movie.
SyncWatch ==
  /\ tsync.state = "ready"
  /\ \E k \in Ids \ tsync.watched :
       tsync' = [tsync EXCEPT !.watched = @ \cup {k}]
  /\ UNCHANGED cacheVars
  /\ UNCHANGED runVars
  /\ UNCHANGED <<sc, config, trakt, recs, paths, req, lookup>>

\* A run with sync_watch_history on.
SyncRun ==
  /\ tsync.state = "ready"
  /\ \E resolved \in SUBSET tsync.watched, accepted \in BOOLEAN, written \in BOOLEAN :
       \E r \in {_sync_watched_movies_to_trakt(tsync.file, tsync.watched, resolved,
                                               accepted, written)} :
         tsync' = [tsync EXCEPT !.file = r.file, !.last = r.run,
                                !.prev = tsync.last]
  /\ UNCHANGED cacheVars
  /\ UNCHANGED runVars
  /\ UNCHANGED <<sc, config, trakt, recs, paths, req, lookup>>

NextSync ==
  \/ SyncWatch
  \/ SyncRun

SpecSync == InitSync /\ [][NextSync]_vars

\* C29: a run posts no movie that the run before it recorded in the sync
\* cache, and posts nothing at all when that run synced every watched
\* movie and the watched set is the same.
C29_SyncedNotPostedAgain ==
  (tsync.state = "ready" /\ tsync.prev.ran /\ tsync.last.ran)
  => /\ \A id \in tsync.prev.recorded : ~PyIn(id, tsync.last.posted)
     /\ (tsync.prev.full /\ tsync.prev.watched = tsync.last.watched)
        => tsync.last.posted = {}

\* --------------------------------- TMDB id and keyword lookups, cached

\* The decimal numerals of the rating keys and TMDB ids in use.
DecimalTable ==
  { <<1, "1">>, <<2, "2">>, <<3, "3">>,
    <<101, "101">>, <<102, "102">>, <<103, "103">>,
    <<901, "901">>, <<902, "902">>, <<903, "903">> }

\* str(n)
str_of(n) == PyStr((CHOOSE p \in DecimalTable : p[1] = n)[2])

\* key in d, for a dict d with Python keys
HasKey(d, key) == \E k \in DOMAIN d : k.type = key.type /\ k.value = key.value

\* d[key] = value
DictSet(d, key, value) ==
  [k \in DOMAIN d \cup {key} |-> IF k = key THEN value ELSE d[k]]

\* d.get(key)  (0 for None)
DictGetKey(d, key) == IF HasKey(d, key) THEN d[key] ELSE 0

\* What the search and the find requests of a lookup are answered with.
SearchResponses == {"results", "no results", "error"}

\* _get_plex_movie_tmdb_id for the movie with rating key k, whose guids
\* hold a TMDB id when guid is true; attempted are the movies that carry
\* _tmdb_fallback_attempted.  search and find are the answers to the
\* search request and to the find request of the IMDb fallback.
\* [plex_tmdb_cache, attempted, tmdb_id, requests]: requests counts the
\* network requests issued.
_get_plex_movie_tmdb_id(plex_tmdb_cache, attempted, k, guid, search, find) ==
  IF k \in attempted
  THEN [plex_tmdb_cache |-> plex_tmdb_cache, attempted |-> attempted,
        tmdb_id |-> DictGetKey(plex_tmdb_cache, PyInt(k)), requests |-> 0]
  ELSE IF HasKey(plex_tmdb_cache, PyInt(k))
  THEN [plex_tmdb_cache |-> plex_tmdb_cache, attempted |-> attempted,
        tmdb_id |-> plex_tmdb_cache[PyInt(k)], requests |-> 0]
  ELSE LET by_guid   == IF guid THEN 100 + k ELSE 0
           searched  == by_guid = 0
           by_search == IF searched /\ search = "results" THEN 900 + k ELSE by_guid
           fallback  == by_search = 0
           tmdb_id   == IF fallback /\ find = "results" THEN 900 + k ELSE by_search
       IN [plex_tmdb_cache |-> IF tmdb_id # 0
                               THEN DictSet(plex_tmdb_cache, str_of(k), tmdb_id)
                               ELSE plex_tmdb_cache,
           attempted |-> IF fallback THEN attempted \cup {k} ELSE attempted,
           tmdb_id |-> tmdb_id,
           requests |-> (IF searched THEN 1 ELSE 0) + (IF fallback THEN 1 ELSE 0)]

\* _get_tmdb_keywords_for_id, with use_tmdb_keywords and an API key:
\* [tmdb_keywords_cache, keywords, requests]
_get_tmdb_keywords_for_id(tmdb_keywords_cache, tmdb_id, resp) ==
  IF HasKey(tmdb_keywords_cache, PyInt(tmdb_id))
  THEN [tmdb_keywords_cache |-> tmdb_keywords_cache,
        keywords |-> tmdb_keywords_cache[PyInt(tmdb_id)], requests |-> 0]
  ELSE LET kw_set == IF resp = "results" THEN {"heist"} ELSE {}
       IN [tmdb_keywords_cache |-> IF kw_set # {}
                                   THEN DictSet(tmdb_keywords_cache, str_of(tmdb_id), kw_set)
                                   ELSE tmdb_keywords_cache,
           keywords |-> kw_set, requests |-> 1]

\* No lookup made yet.
NoLookup == [op |-> "none", arg |-> 0, stored |-> FALSE, requests |-> 0]

InitLookup ==
  /\ plex = EmptyDict
  /\ disk = DiskMissing
  /\ obj = "none"
  /\ cache = EmptyDict
  /\ last = NoCall
  /\ prev = NoPrev
  /\ mode = [source |-> "tautulli", single |-> FALSE]
  /\ InitRun
  /\ sc = NoScoring
  /\ config = DefaultConfig
  /\ trakt = TraktDown
  /\ recs = NoRecs
  /\ paths = Idle
  /\ req = Idle
  /\ tsync = Idle
  /\ \E guids \in [Ids -> BOOLEAN] :
       lookup = [state |-> "ready", guids |-> guids,
                 plex_tmdb_cache |-> EmptyDict, tmdb_keywords_cache |-> EmptyDict,
                 attempted |-> {}, last |-> NoLookup]

\* A call of _get_plex_movie_tmdb_id; last.stored is whether the cache
\* held the movie's TMDB id when the call was made.
LookupTmdbId ==
  /\ lookup.state = "ready"
  /\ \E k \in Ids, search \in SearchResponses, find \in SearchResponses :
       \E r \in {_get_plex_movie_tmdb_id(lookup.plex_tmdb_cache, lookup.attempted,
                                         k, lookup.guids[k], search, find)} :
         lookup' = [lookup EXCEPT
                      !.plex_tmdb_cache = r.plex_tmdb_cache,
                      !.attempted = r.attempted,
                      !.last = [op |-> "tmdb_id", arg |-> k,
                                stored |-> HasKey(lookup.plex_tmdb_cache, str_of(k)),
                                requests |-> r.requests]]
  /\ UNCHANGED cacheVars
  /\ UNCHANGED runVars
  /\ UNCHANGED <<sc, config, trakt, recs, paths, req, tsync>>

\* A call of _get_tmdb_keywords_for_id for a TMDB id found by a search;
\* last.stored is whether the cache held its keywords when the call was
\* made.
LookupKeywords ==
  /\ lookup.state = "ready"
  /\ \E k \in Ids, resp \in SearchResponses :
       \E r \in {_get_tmdb_keywords_for_id(lookup.tmdb_keywords_cache, 900 + k, resp)} :
         lookup' = [lookup EXCEPT
                      !.tmdb_keywords_cache = r.tmdb_keywords_cache,
                      !.last = [op |-> "keywords", arg |-> 900 + k,
                                stored |-> HasKey(lookup.tmdb_keywords_cache,
                                                  str_of(900 + k)),
                                requests |-> r.requests]]
  /\ UNCHANGED cacheVars
  /\ UNCHANGED runVars
  /\ UNCHANGED <<sc, config, trakt, recs, paths, req, tsync>>

NextLookup ==
  \/ LookupTmdbId
  \/ LookupKeywords

SpecLookup == InitLookup /\ [][NextLookup]_vars

\* C30: a lookup of a TMDB id or of keywords that the cache already holds
\* issues no network request.
C30_CachedLookupNoRequest ==
  (lookup.state = "ready" /\ lookup.last.op # "none" /\ lookup.last.stored)
  => lookup.last.requests = 0

====
